---- MODULE Spec2Model ----
(***************************************************************************)
(* Sales-insights pipeline: the record cleaner (LimpezaDados), the         *)
(* statistics engine (EstatisticasVendas) and the category generator       *)
(* (CategoriaInferidor).                                                   *)
(*                                                                         *)
(* Numbers with decimals are fixed-point integers in hundredths: a unit    *)
(* price of 10.00 is 1000, a quantity of 0.5 is 50, a margin of 0.20 is 20 *)
(* and a rate of 80.00 % is 8000.  A timestamp is a number of hours since  *)
(* 2024-01-01 00:00 (a Monday); all dates of the model lie in 2024.        *)
(*                                                                         *)
(* A cell of a data frame is a record [t, v]:                              *)
(*   t = "na"    missing (NaN / NaT / None)                                *)
(*   t = "lixo"  text that does not parse                                  *)
(*   t = "txt"   text that parses to the value v                           *)
(*   t = "txt2"  another text that parses to v, as "10.0" is for "10"      *)
(*   t = "val"   a typed value v                                           *)
(***************************************************************************)
EXTENDS Integers, Sequences, FiniteSets, TLC

VARIABLES
    pc,          \* position of limpar() in its pipeline
    entrada,     \* the caller's raw frame (limpar works on a copy)
    df,          \* the working frame of the current run: a sequence of rows
    colunas,     \* df.columns
    arquivo,     \* dados/categorias_produtos.csv as the current run finds it
    relatorio,   \* self.relatorio of the LimpezaDados instance
    etapas,      \* the stages the current run has executed, in order
    escritas,    \* the report keys the current run has written
    erro,        \* the exception the current run raised, if any
    retorno,     \* what the last limpar() returned
    execucoes,   \* number of limpar() calls made on this instance
    historico,   \* how each finished limpar() call on this instance ended
    ref,         \* the caller's handle from get_relatorio() and what it showed then
    indice,      \* df.index: the label of every row of df, in row order
    resultados,  \* self.resultados of the EstatisticasVendas instance
    calc,        \* the last calcular() call: its input and its outcome
    objeto,      \* which dictionary self.resultados is bound to: the number
                 \* of the call that built it, 0 for the one of __init__
    consultas,   \* the product names classified so far, with the answers
    insights,    \* the last InsightsVendas.gerar() call: its map and its dict
    analise      \* AnalisadorVendas.executar(): the stages outside limpar and
                 \* calcular that have run, and how the call ended

vars == <<pc, entrada, df, colunas, arquivo, relatorio, etapas, escritas,
          erro, retorno, execucoes, historico, ref, indice, resultados,
          calc, objeto, consultas, insights, analise>>

limpezaVars == <<pc, entrada, df, colunas, arquivo, relatorio, etapas,
                 escritas, erro, retorno, execucoes, historico, ref, indice>>

analiseVars == <<insights, analise>>

estatVars == <<resultados, calc, objeto, consultas, insights, analise>>

-----------------------------------------------------------------------------
(* Bounds of the model *)

MaxLinhas == 5          \* rows of a raw frame, single-run specification
MaxLinhasReuso == 2     \* rows of a raw frame when one cleaner is reused
MaxExecucoes == 2       \* limpar() calls made on one cleaner
MaxLinhasCalc == 2      \* rows of a frame handed to calcular()
MaxChamadas == 2        \* calcular() calls made on one engine
MaxLinhasEstat == 12     \* rows of UniversoLimpo a cleaned frame is drawn from
MaxConsultas == 2        \* product names classified in one run
MaxLinhasInsights == 5   \* rows of UniversoLimpo behind a map handed to gerar()
MaxLinhasAnalise == 3    \* records of the file that executar() loads

-----------------------------------------------------------------------------
(* Cells and rows *)

NA == [t |-> "na", v |-> 0]
NAtxt == [t |-> "na", v |-> ""]
Lixo == [t |-> "lixo", v |-> 0]
Txt(n) == [t |-> "txt", v |-> n]
TxtOutro(n) == [t |-> "txt2", v |-> n]
Val(n) == [t |-> "val", v |-> n]

NotNa(c) == c.t # "na"

\* A timestamp: day of 2024 (0 = 1 January) and hour of the day.
Ts(dia, hora) == dia * 24 + hora

COLUNAS_OBRIGATORIAS == <<"data", "produto", "valor", "quantidade">>

SeqToSet(s) == {s[i] : i \in 1..Len(s)}

\* A row of a frame.  Columns that the frame does not have hold placeholders.
Linha(d, p, v, q) ==
    [data |-> d, produto |-> p, valor |-> v, quantidade |-> q,
     receita |-> 0, ano |-> 0, mes |-> 0, dia_semana |-> 0, dia_mes |-> 0,
     semana_ano |-> 0, categoria |-> "", margem |-> 0, lucro |-> 0]

\* The raw rows the model draws frames from, as a CSV loaded without type
\* inference would present them.  The order is deliberately not chronological.
Universo ==
    << Linha(Txt(Ts(31, 10)), Val("Mouse Gamer"), Txt(1000), Txt(200)),
       Linha(Txt(Ts(30, 0)),  Val("HD Externo"),  Txt(1000), Txt(100)),
       Linha(Txt(Ts(31, 8)),  Val("Mouse Gamer"), Txt(1000), Txt(50)),
       Linha(Txt(Ts(30, 0)),  Val("Mouse Gamer"), Txt(1500), Txt(100)),
       Linha(Txt(Ts(31, 10)), Val("HD Externo"),  Txt(100000), Txt(100)),
       Linha(Lixo,            Val("HD Externo"),  Txt(1000), Txt(100)),
       Linha(Txt(Ts(30, 0)),  Val("Mouse Gamer"), Txt(0),    Txt(100)),
       Linha(Txt(Ts(31, 10)), NAtxt,              Txt(1000), Lixo),
       Linha(Txt(Ts(30, 0)),  Val("HD Externo"),  Lixo,      Txt(0 - 100)),
       Linha(TxtOutro(Ts(30, 0)), Val("HD Externo"), Txt(1000), Txt(100)) >>

\* Frames up to row order: sequences of universe indices in non-decreasing
\* order, of length n, with entries >= lo.
RECURSIVE Indices(_, _)
Indices(n, lo) ==
    IF n = 0 THEN {<<>>}
    ELSE UNION {{<<i>> \o s : s \in Indices(n - 1, i)} : i \in lo..Len(Universo)}

Frames(max) ==
    UNION {{[k \in 1..n |-> Universo[ix[k]]] : ix \in Indices(n, 1)} : n \in 0..max}

\* A frame restricted to the columns cols: the other cells are placeholders.
SemColuna(r, cols) ==
    [r EXCEPT !.data = IF "data" \in cols THEN @ ELSE NA,
              !.produto = IF "produto" \in cols THEN @ ELSE NAtxt,
              !.valor = IF "valor" \in cols THEN @ ELSE NA,
              !.quantidade = IF "quantidade" \in cols THEN @ ELSE NA]

Projetar(f, cols) == [k \in 1..Len(f) |-> SemColuna(f[k], cols)]

\* The category reference file: absent, or a list of entries.
Entrada(p, c, m) == [produto |-> p, categoria_sugerida |-> c, margem_sugerida |-> m]

Arquivos ==
    { [existe |-> FALSE, linhas |-> <<>>],
      [existe |-> TRUE, linhas |-> <<Entrada("Mouse Gamer", "Mouse", 35)>>],
      [existe |-> TRUE, linhas |-> <<Entrada("Mouse Gamer", "Mouse", 35),
                                     Entrada("HD Externo", "Armazenamento", 25),
                                     Entrada("Mouse Gamer", "Perifericos", 40)>>] }

-----------------------------------------------------------------------------
(* The report dictionary *)

Vazio == [k \in {} |-> 0]

Put(d, k, x) == [y \in DOMAIN d \cup {k} |-> IF y = k THEN x ELSE d[y]]

-----------------------------------------------------------------------------
(* Column validation: LimpezaDados.validar_colunas *)

\* faltando = [col for col in COLUNAS_OBRIGATORIAS if col not in df.columns]
FaltandoMut(cols) ==
    SelectSeq(SubSeq(COLUNAS_OBRIGATORIAS, 1, 3), LAMBDA c : c \notin cols)
Faltando(cols) ==
    SelectSeq(COLUNAS_OBRIGATORIAS, LAMBDA c : c \notin cols)

\* The ValueError of validar_colunas: the missing and the available columns.
ErroColunas(cols) ==
    [tipo |-> "ColunasAusentes", faltando |-> Faltando(cols), disponiveis |-> cols]

SemErro == [tipo |-> "nenhum", faltando |-> <<>>, disponiveis |-> {}]

ErroDivisaoZero == [tipo |-> "ZeroDivisionError", faltando |-> <<>>, disponiveis |-> {}]

-----------------------------------------------------------------------------
(* Deduplication: DataFrame.drop_duplicates(), first occurrence kept *)

\* The Mut variant compares the dates by the value they parse to.
RECURSIVE DropDuplicatesMut(_)
DropDuplicatesMut(s) ==
    IF s = <<>> THEN <<>>
    ELSE LET n == Len(s)
             cru(r) == [r EXCEPT !.data.t = IF @ = "txt2" THEN "txt" ELSE @]
             resto == DropDuplicatesMut(SubSeq(s, 1, n - 1))
         IN  IF \E i \in 1..(n - 1) : cru(s[i]) = cru(s[n]) THEN resto
             ELSE Append(resto, s[n])

RECURSIVE DropDuplicates(_)
DropDuplicates(s) ==
    IF s = <<>> THEN <<>>
    ELSE LET n == Len(s)
             resto == DropDuplicates(SubSeq(s, 1, n - 1))
         IN  IF \E i \in 1..(n - 1) : s[i] = s[n] THEN resto
             ELSE Append(resto, s[n])

-----------------------------------------------------------------------------
(* Type coercion: LimpezaDados.converter_tipos *)

\* pd.to_datetime / pd.to_numeric with errors="coerce": text that parses
\* becomes its value, anything else becomes missing.
Coerce(c) ==
    CASE c.t \in {"txt", "txt2"} -> Val(c.v)
      [] c.t = "val" -> c
      [] OTHER -> NA

ConverterLinha(r) ==
    [r EXCEPT !.data = Coerce(@), !.valor = Coerce(@), !.quantidade = Coerce(@)]

MapSeq(s, f(_)) == [k \in 1..Len(s) |-> f(s[k])] \o <<>>

RECURSIVE SomaSeq(_)
\* Sum of a sequence of numbers.
SomaSeq(s) == IF s = <<>> THEN 0 ELSE Head(s) + SomaSeq(Tail(s))

Soma(s, f(_)) == SomaSeq(MapSeq(s, f))

Conta(s, P(_)) == Len(SelectSeq(s, P))

\* antes - depois, summed over the three converted columns.
InvalidosConvertidos(s) ==
    LET perdidos(r) ==
          (IF NotNa(r.data) /\ ~NotNa(Coerce(r.data)) THEN 1 ELSE 0)
        + (IF NotNa(r.valor) /\ ~NotNa(Coerce(r.valor)) THEN 1 ELSE 0)
        + (IF NotNa(r.quantidade) /\ ~NotNa(Coerce(r.quantidade)) THEN 1 ELSE 0)
    IN  Soma(s, perdidos)

-----------------------------------------------------------------------------
(* Invalid-record rejection: LimpezaDados.remover_registros_invalidos *)

\* astype(int) on a positive float truncates toward zero.
AsTypeInt(x) == (x \div 100) * 100

\* dropna(subset=COLUNAS_OBRIGATORIAS), then valor > 0 and quantidade > 0.
RegistroValido(r) ==
    /\ NotNa(r.data) /\ NotNa(r.produto) /\ NotNa(r.valor) /\ NotNa(r.quantidade)
    /\ r.valor.v > 0
    /\ r.quantidade.v > 0

RemoverRegistrosInvalidosDf(s) ==
    MapSeq(SelectSeq(s, RegistroValido),
           LAMBDA r : [r EXCEPT !.quantidade = Val(AsTypeInt(@.v))])

-----------------------------------------------------------------------------
(* Outlier rejection: LimpezaDados.remover_outliers_extremos *)

LimiteIQR == 3

\* Series.quantile(k/4) with linear interpolation, times 4, of the sorted
\* values xs (non-empty).
Quantil4(xs, k) ==
    LET num == k * (Len(xs) - 1)
        i == num \div 4
        frac == num % 4
    IN  IF frac = 0 THEN 4 * xs[i + 1]
        ELSE 4 * xs[i + 1] + frac * (xs[i + 2] - xs[i + 1])

Valores(s) == SortSeq(MapSeq(s, LAMBDA r : r.valor.v), LAMBDA a, b : a < b)

\* The Mut variant keeps the rows strictly inside the limits.
DentroDosLimitesMut(s, limite) ==
    IF s = <<>> THEN <<>>
    ELSE LET xs == Valores(s)
             Q1 == Quantil4(xs, 1)
             Q3 == Quantil4(xs, 3)
             IQR == Q3 - Q1
         IN  SelectSeq(s, LAMBDA r : /\ 4 * r.valor.v > Q1 - limite * IQR
                                     /\ 4 * r.valor.v < Q3 + limite * IQR)

\* The rows kept: Q1 - limite*IQR <= valor <= Q3 + limite*IQR.  On an empty
\* frame the quantiles are NaN, every comparison is false and nothing is left.
DentroDosLimites(s, limite) ==
    IF s = <<>> THEN <<>>
    ELSE LET xs == Valores(s)
             Q1 == Quantil4(xs, 1)
             Q3 == Quantil4(xs, 3)
             IQR == Q3 - Q1
             limite_inferior == Q1 - limite * IQR
             limite_superior == Q3 + limite * IQR
         IN  SelectSeq(s, LAMBDA r : /\ 4 * r.valor.v >= limite_inferior
                                     /\ 4 * r.valor.v <= limite_superior)

-----------------------------------------------------------------------------
(* Derived features: LimpezaDados.criar_features_derivadas *)

DiasDoMes == <<31, 29, 31, 30, 31, 30, 31, 31, 30, 31, 30, 31>>

RECURSIVE DiasAntes(_)
\* Days of 2024 before month m.
DiasAntes(m) == IF m = 1 THEN 0 ELSE DiasAntes(m - 1) + DiasDoMes[m - 1]

DiaDoAno(ts) == ts \div 24
MesDe(ts) ==
    CHOOSE m \in 1..12 :
        DiasAntes(m) <= DiaDoAno(ts) /\ DiaDoAno(ts) < DiasAntes(m) + DiasDoMes[m]
DiaMesDe(ts) == DiaDoAno(ts) - DiasAntes(MesDe(ts)) + 1
\* 1 January 2024 is a Monday: dayofweek 0.
DiaSemanaDe(ts) == DiaDoAno(ts) % 7
SemanaDe(ts) == DiaDoAno(ts) \div 7 + 1

\* receita = valor * quantidade, in hundredths.
ReceitaMut(r) == r.valor.v
Receita(r) == (r.valor.v * r.quantidade.v) \div 100

CriarFeatures(r) ==
    [r EXCEPT !.receita = Receita(r),
              !.ano = 2024,
              !.mes = MesDe(r.data.v),
              !.dia_semana = DiaSemanaDe(r.data.v),
              !.dia_mes = DiaMesDe(r.data.v),
              !.semana_ano = SemanaDe(r.data.v)]

-----------------------------------------------------------------------------
(* Category enrichment: LimpezaDados.aplicar_categorias *)

CategoriaPadrao == "Outros"
MargemPadraoLimpeza == 20

\* round(x, 2) of the quotient num / den of naturals, in hundredths when
\* num / den is in hundredths: nearest, ties to even.
Round(num, den) ==
    LET q == num \div den
        r == num % den
    IN  IF 2 * r > den \/ (2 * r = den /\ q % 2 = 1) THEN q + 1 ELSE q

\* lucro = (receita * margem).round(2)
Lucro(receita, margem) == Round(receita * margem, 100)

ComCategoria(r, cat, margem) ==
    [r EXCEPT !.categoria = cat, !.margem = margem, !.lucro = Lucro(r.receita, margem)]

\* except FileNotFoundError: every row gets the constant category and margin.
SemArquivo(s) == MapSeq(s, LAMBDA r : ComCategoria(r, CategoriaPadrao, MargemPadraoLimpeza))

\* df.merge(categorias, on="produto", how="left"): one row per matching file
\* entry, in file order; a row without a match is kept once, unmatched.
RECURSIVE Merge(_, _)
Merge(s, linhas) ==
    IF s = <<>> THEN <<>>
    ELSE LET r == Head(s)
             achados == SelectSeq(linhas, LAMBDA e : e.produto = r.produto.v)
             novas == IF achados = <<>>
                      THEN <<[linha |-> r, achou |-> FALSE, e |-> Entrada("", "", 0)]>>
                      ELSE MapSeq(achados, LAMBDA e : [linha |-> r, achou |-> TRUE, e |-> e])
         IN  novas \o Merge(Tail(s), linhas)

\* sem_cat = df["categoria_sugerida"].isna().sum()
SemCat(m) == Conta(m, LAMBDA x : ~x.achou)

\* fillna("Outros") / fillna(0.20), lucro, auxiliary columns dropped.
AjustarCampos(m) ==
    MapSeq(m, LAMBDA x :
        IF x.achou THEN ComCategoria(x.linha, x.e.categoria_sugerida, x.e.margem_sugerida)
        ELSE ComCategoria(x.linha, CategoriaPadrao, MargemPadraoLimpeza))

-----------------------------------------------------------------------------
(* Chronological ordering: LimpezaDados.ordenar_dados *)

RemoverPrimeira(s, r) ==
    LET i == CHOOSE k \in 1..Len(s) : s[k] = r /\ \A j \in 1..(k - 1) : s[j] # r
    IN  SubSeq(s, 1, i - 1) \o SubSeq(s, i + 1, Len(s))

\* The Mut variant leaves the rows as they are.
OrdenacoesMut(s) == {s}

RECURSIVE Ordenacoes(_)
\* sort_values("data") with the default, unstable, sort: every arrangement
\* of the rows with non-decreasing data is a possible result.
Ordenacoes(s) ==
    IF s = <<>> THEN {<<>>}
    ELSE LET menor == CHOOSE x \in SeqToSet(s) : \A y \in SeqToSet(s) : x.data.v <= y.data.v
             primeiras == {x \in SeqToSet(s) : x.data.v = menor.data.v}
         IN  UNION {{<<x>> \o t : t \in Ordenacoes(RemoverPrimeira(s, x))} : x \in primeiras}

-----------------------------------------------------------------------------
(* Row labels: DataFrame.index *)

\* The index read_csv, merge and reset_index(drop=True) give: 0 .. n - 1.
RangeIndex(n) == [k \in 1..n |-> k - 1]

\* The labels left when only the rows at the positions of M are kept.
RotulosDe(rot, M) ==
    MapSeq(SelectSeq([k \in 1..Len(rot) |-> k], LAMBDA k : k \in M), LAMBDA k : rot[k])

\* The positions drop_duplicates keeps: the first row of every group.
Primeiras(s) == {k \in 1..Len(s) : \A i \in 1..(k - 1) : s[i] # s[k]}

-----------------------------------------------------------------------------
(* The final counters of limpar *)

\* round((final / inicial) * 100, 2), in hundredths of a percent; inicial > 0.
TaxaAproveitamentoMut(final, inicial) == (final * 10000) \div inicial
TaxaAproveitamento(final, inicial) == Round(final * 10000, inicial)

-----------------------------------------------------------------------------
(* The cleaner's state machine: LimpezaDados.limpar, one action per stage *)

\* The calls of limpar, lines 182-189, in the order it makes them.
PipelineMut ==
    <<"validar_colunas", "converter_tipos", "remover_duplicatas",
      "remover_registros_invalidos", "remover_outliers_extremos",
      "criar_features_derivadas", "aplicar_categorias", "ordenar_dados">>
Pipeline ==
    <<"validar_colunas", "remover_duplicatas", "converter_tipos",
      "remover_registros_invalidos", "remover_outliers_extremos",
      "criar_features_derivadas", "aplicar_categorias", "ordenar_dados">>

\* The position after the stage nome: the next call, or the final counters.
Proxima(nome) ==
    LET i == CHOOSE k \in 1..Len(Pipeline) : Pipeline[k] = nome
    IN  IF i = Len(Pipeline) THEN "fim" ELSE Pipeline[i + 1]

SemRetorno == [ok |-> FALSE, df |-> <<>>]

ArquivoNaoLido == [existe |-> FALSE, linhas |-> <<>>]

\* LimpezaDados.__init__ and EstatisticasVendas.__init__
\* executar before its first statement: nothing loaded, nothing bound, no
\* stage called, nothing raised, nothing returned.
SemRetornoAnalise == [ok |-> FALSE, df |-> <<>>, estatisticas |-> Vazio, insights |-> Vazio]
AnaliseInicial ==
    [pc |-> "carregar", df |-> <<>>, df_limpo |-> <<>>, estatisticas |-> Vazio,
     insights |-> Vazio, caminhos |-> {}, relatorio_com |-> Vazio,
     erro |-> [etapa |-> "", tipo |-> ""],
     chamadas |-> [e \in {"carregar", "insights", "graficos", "relatorio"} |-> 0],
     retorno |-> SemRetornoAnalise]

Init ==
    /\ pc = "idle"
    /\ entrada = <<>>
    /\ df = <<>>
    /\ colunas = {}
    /\ arquivo = ArquivoNaoLido
    /\ relatorio = Vazio
    /\ etapas = <<>>
    /\ escritas = {}
    /\ erro = SemErro
    /\ retorno = SemRetorno
    /\ execucoes = 0
    /\ historico = <<>>
    /\ ref = [tem |-> FALSE, quando |-> "idle", visto |-> Vazio]
    /\ indice = <<>>
    /\ resultados = Vazio
    /\ calc = [feito |-> FALSE, df |-> <<>>, colunas |-> {}, tipo |-> "nenhum",
               faltando |-> {}, mapa |-> Vazio, chamadas |-> 0,
               repetida |-> FALSE]
    /\ objeto = 0
    /\ consultas = <<>>
    /\ insights = [feito |-> FALSE, estatisticas |-> Vazio, dict |-> Vazio]
    /\ analise = AnaliseInicial

Parado == pc \in {"idle", "done", "failed"}

\* limpar, lines 177-182, when validar_colunas passes: the frame is copied,
\* registros_iniciais is written and the pipeline starts.
LimparInicio(frames, maxExec) ==
    /\ Parado
    /\ execucoes < maxExec
    /\ \E f \in frames, cols \in SUBSET SeqToSet(COLUNAS_OBRIGATORIAS) :
          /\ Faltando(cols) = <<>>
          /\ entrada' = Projetar(f, cols)
          /\ df' = entrada'
          /\ colunas' = cols
    /\ indice' = RangeIndex(Len(entrada'))
    /\ relatorio' = Put(relatorio, "registros_iniciais", Len(entrada'))
    /\ escritas' = {"registros_iniciais"}
    /\ etapas' = <<"validar_colunas">>
    /\ erro' = SemErro
    /\ retorno' = SemRetorno
    /\ execucoes' = execucoes + 1
    /\ pc' = Proxima("validar_colunas")
    /\ UNCHANGED <<arquivo, historico, ref, estatVars>>

\* limpar, lines 177-182, when validar_colunas raises: registros_iniciais is
\* already written, no stage after the validation runs, nothing is returned.
LimparColunasAusentes(frames, maxExec) ==
    /\ Parado
    /\ execucoes < maxExec
    /\ \E f \in frames, cols \in SUBSET SeqToSet(COLUNAS_OBRIGATORIAS) :
          /\ Faltando(cols) # <<>>
          /\ entrada' = Projetar(f, cols)
          /\ df' = entrada'
          /\ colunas' = cols
    /\ indice' = RangeIndex(Len(entrada'))
    /\ relatorio' = Put(relatorio, "registros_iniciais", Len(entrada'))
    /\ escritas' = {"registros_iniciais"}
    /\ etapas' = <<"validar_colunas">>
    /\ erro' = ErroColunas(colunas')
    /\ retorno' = SemRetorno
    /\ execucoes' = execucoes + 1
    /\ historico' = Append(historico, erro'.tipo)
    /\ pc' = "failed"
    /\ UNCHANGED <<arquivo, ref, estatVars>>

\* What every stage leaves alone.
Etapa(nome) ==
    /\ pc = nome
    /\ etapas' = Append(etapas, nome)
    /\ pc' = Proxima(nome)
    /\ UNCHANGED <<entrada, colunas, erro, retorno, execucoes, historico, ref, estatVars>>

Escrever(k, x) ==
    /\ relatorio' = Put(relatorio, k, x)
    /\ escritas' = escritas \cup {k}

RemoverDuplicatas ==
    /\ Etapa("remover_duplicatas")
    /\ df' = DropDuplicates(df)
    /\ indice' = RotulosDe(indice, Primeiras(df))
    /\ Escrever("duplicatas_removidas", Len(df) - Len(df'))
    /\ UNCHANGED arquivo

ConverterTipos ==
    /\ Etapa("converter_tipos")
    /\ df' = MapSeq(df, ConverterLinha)
    /\ Escrever("valores_invalidos_convertidos", InvalidosConvertidos(df))
    /\ UNCHANGED <<arquivo, indice>>

RemoverRegistrosInvalidos ==
    /\ Etapa("remover_registros_invalidos")
    /\ df' = RemoverRegistrosInvalidosDf(df)
    /\ indice' = RotulosDe(indice, {k \in 1..Len(df) : RegistroValido(df[k])})
    /\ Escrever("registros_invalidos", Len(df) - Len(df'))
    /\ UNCHANGED arquivo

RemoverOutliersExtremos ==
    /\ Etapa("remover_outliers_extremos")
    /\ df' = DentroDosLimites(df, LimiteIQR)
    /\ indice' = RotulosDe(indice, {k \in 1..Len(df) : df[k] \in SeqToSet(df')})
    /\ Escrever("outliers_removidos_valor", Len(df) - Len(df'))
    /\ UNCHANGED arquivo

CriarFeaturesDerivadas ==
    /\ Etapa("criar_features_derivadas")
    /\ df' = MapSeq(df, CriarFeatures)
    /\ UNCHANGED <<relatorio, escritas, arquivo, indice>>

\* aplicar_categorias when the reference file is read: merge, fill, count.
AplicarCategorias ==
    /\ Etapa("aplicar_categorias")
    /\ \E a \in Arquivos :
          /\ a.existe
          /\ arquivo' = a
    /\ LET m == Merge(df, arquivo'.linhas)
       IN  /\ df' = AjustarCampos(m)
           /\ indice' = RangeIndex(Len(m))
           /\ Escrever("produtos_sem_categoria", SemCat(m))

\* aplicar_categorias when read_csv raises FileNotFoundError: the early
\* return, before the report is updated.
AplicarCategoriasSemArquivo ==
    /\ Etapa("aplicar_categorias")
    /\ \E a \in Arquivos :
          /\ ~a.existe
          /\ arquivo' = a
    /\ df' = SemArquivo(df)
    /\ UNCHANGED <<relatorio, escritas, indice>>

OrdenarDados ==
    /\ Etapa("ordenar_dados")
    /\ df' \in Ordenacoes(df)
    /\ indice' = RangeIndex(Len(df'))
    /\ UNCHANGED <<relatorio, escritas, arquivo>>

\* limpar, lines 191-199: the final counters and the return.
LimparFim ==
    /\ pc = "fim"
    /\ Len(entrada) # 0
    /\ relatorio' = Put(Put(relatorio, "registros_finais", Len(df)),
                        "taxa_aproveitamento", TaxaAproveitamento(Len(df), Len(entrada)))
    /\ escritas' = escritas \cup {"registros_finais", "taxa_aproveitamento"}
    /\ retorno' = [ok |-> TRUE, df |-> df]
    /\ historico' = Append(historico, "done")
    /\ pc' = "done"
    /\ UNCHANGED <<entrada, df, colunas, arquivo, etapas, erro, execucoes, ref, indice,
                   estatVars>>

\* limpar, lines 191-193, on a frame of zero rows: final / inicial divides by
\* zero after registros_finais is written.
LimparFimDivisaoPorZero ==
    /\ pc = "fim"
    /\ Len(entrada) = 0
    /\ relatorio' = Put(relatorio, "registros_finais", Len(df))
    /\ escritas' = escritas \cup {"registros_finais"}
    /\ erro' = ErroDivisaoZero
    /\ historico' = Append(historico, erro'.tipo)
    /\ pc' = "failed"
    /\ UNCHANGED <<entrada, df, colunas, arquivo, etapas, retorno, execucoes, ref, indice,
                   estatVars>>

\* get_relatorio: the caller gets the dictionary itself, not a copy.
GetRelatorio ==
    /\ Parado
    /\ execucoes > 0
    /\ ref' = [tem |-> TRUE, quando |-> pc, visto |-> relatorio]
    /\ UNCHANGED <<pc, entrada, df, colunas, arquivo, relatorio, etapas, escritas,
                   erro, retorno, execucoes, historico, indice, estatVars>>

Estagios ==
    \/ RemoverDuplicatas
    \/ ConverterTipos
    \/ RemoverRegistrosInvalidos
    \/ RemoverOutliersExtremos
    \/ CriarFeaturesDerivadas
    \/ AplicarCategorias
    \/ AplicarCategoriasSemArquivo
    \/ OrdenarDados
    \/ LimparFim
    \/ LimparFimDivisaoPorZero

\* One cleaner, one limpar() call on frames of up to MaxLinhas rows.
Next ==
    \/ LimparInicio(Frames(MaxLinhas), 1)
    \/ LimparColunasAusentes(Frames(MaxLinhas), 1)
    \/ Estagios
    \/ GetRelatorio

Spec == Init /\ [][Next]_vars

\* One cleaner reused for up to MaxExecucoes calls, on smaller frames.
NextReuso ==
    \/ LimparInicio(Frames(MaxLinhasReuso), MaxExecucoes)
    \/ LimparColunasAusentes(Frames(MaxLinhasReuso), MaxExecucoes)
    \/ Estagios
    \/ GetRelatorio

SpecReuso == Init /\ [][NextReuso]_vars

-----------------------------------------------------------------------------
(* Product names as text *)

\* Product names as text.  A frame holds a name as a string; Letras gives its
\* characters, on which str.lower(), the substring test and the pattern
\* search work.
Letras ==
    ("Mouse Gamer" :> <<"M", "o", "u", "s", "e", " ", "G", "a", "m", "e", "r">>)
    @@ ("HD Externo" :> <<"H", "D", " ", "E", "x", "t", "e", "r", "n", "o">>)
    @@ ("Mousepad Gamer" :> <<"M", "o", "u", "s", "e", "p", "a", "d", " ", "G", "a", "m", "e", "r">>)
    @@ ("Webcam HD" :> <<"W", "e", "b", "c", "a", "m", " ", "H", "D">>)
    @@ ("Cabo HDMI" :> <<"C", "a", "b", "o", " ", "H", "D", "M", "I">>)
    @@ ("Cabo USB" :> <<"C", "a", "b", "o", " ", "U", "S", "B">>)
    @@ ("Kit Teclado Mousepad" :> <<"K", "i", "t", " ", "T", "e", "c", "l", "a", "d", "o", " ", "M", "o", "u", "s", "e", "p", "a", "d">>)
    @@ ("Memória DDR4" :> <<"M", "e", "m", "ó", "r", "i", "a", " ", "D", "D", "R", "4">>)
    @@ ("Notebook Pro" :> <<"N", "o", "t", "e", "b", "o", "o", "k", " ", "P", "r", "o">>)
    @@ ("Monitor 24" :> <<"M", "o", "n", "i", "t", "o", "r", " ", "2", "4">>)
    @@ ("SSD 480GB" :> <<"S", "S", "D", " ", "4", "8", "0", "G", "B">>)
    @@ ("Headset USB" :> <<"H", "e", "a", "d", "s", "e", "t", " ", "U", "S", "B">>)
    @@ ("Cadeira Gamer" :> <<"C", "a", "d", "e", "i", "r", "a", " ", "G", "a", "m", "e", "r">>)
    @@ ("notebook" :> <<"n", "o", "t", "e", "b", "o", "o", "k">>)
    @@ ("monitor" :> <<"m", "o", "n", "i", "t", "o", "r">>)
    @@ ("ssd" :> <<"s", "s", "d">>)
    @@ ("hd" :> <<"h", "d">>)
    @@ ("memória" :> <<"m", "e", "m", "ó", "r", "i", "a">>)
    @@ ("memoria" :> <<"m", "e", "m", "o", "r", "i", "a">>)
    @@ ("ram" :> <<"r", "a", "m">>)
    @@ ("mouse" :> <<"m", "o", "u", "s", "e">>)
    @@ ("teclado" :> <<"t", "e", "c", "l", "a", "d", "o">>)
    @@ ("headset" :> <<"h", "e", "a", "d", "s", "e", "t">>)
    @@ ("fone" :> <<"f", "o", "n", "e">>)
    @@ ("webcam" :> <<"w", "e", "b", "c", "a", "m">>)
    @@ ("cadeira" :> <<"c", "a", "d", "e", "i", "r", "a">>)
    @@ ("mousepad" :> <<"m", "o", "u", "s", "e", "p", "a", "d">>)

\* The names that are, letter for letter, a keyword of MARGENS_CATEGORIA.
Palavras ==
    {"notebook", "monitor", "ssd", "hd", "memória", "memoria", "ram",
     "mouse", "teclado", "headset", "fone", "webcam", "cadeira", "mousepad"}

\* The product names of the catalogue.
Nomes == DOMAIN Letras \ Palavras

\* The lower-case letter of every upper-case letter.
Minuscula ==
    ("A" :> "a") @@ ("B" :> "b") @@ ("C" :> "c") @@ ("D" :> "d") @@ ("E" :> "e")
    @@ ("F" :> "f") @@ ("G" :> "g") @@ ("H" :> "h") @@ ("I" :> "i") @@ ("J" :> "j")
    @@ ("K" :> "k") @@ ("L" :> "l") @@ ("M" :> "m") @@ ("N" :> "n") @@ ("O" :> "o")
    @@ ("P" :> "p") @@ ("Q" :> "q") @@ ("R" :> "r") @@ ("S" :> "s") @@ ("T" :> "t")
    @@ ("U" :> "u") @@ ("V" :> "v") @@ ("W" :> "w") @@ ("X" :> "x") @@ ("Y" :> "y")
    @@ ("Z" :> "z") @@ ("Ó" :> "ó")

Letra == DOMAIN Minuscula \cup {Minuscula[c] : c \in DOMAIN Minuscula}
Digitos == {"0", "1", "2", "3", "4", "5", "6", "7", "8", "9"}

\* str.lower(): every upper-case letter is replaced by its lower-case one.
LowerChar(c) == IF c \in DOMAIN Minuscula THEN Minuscula[c] ELSE c

RECURSIVE Lower(_)
Lower(s) == IF s = <<>> THEN <<>> ELSE <<LowerChar(Head(s))>> \o Lower(Tail(s))

\* The positions at which palavra occurs in nome as a run of consecutive
\* characters.
PosicoesDe(palavra, nome) ==
    {i \in 1..(Len(nome) - Len(palavra) + 1) :
        SubSeq(nome, i, i + Len(palavra) - 1) = palavra}

\* palavra in nome
Contem(palavra, nome) == PosicoesDe(palavra, nome) # {}

-----------------------------------------------------------------------------
(* The keyword heuristic: CategoriaInferidor of scripts/gerar_categorias.py *)

\* self.regras, in declared order.  A rule holds the alternatives of its
\* pattern; isolada says that the pattern is enclosed in \b ... \b.
regras ==
    << [alternativas |-> <<<<"n", "o", "t", "e", "b", "o", "o", "k">>>>, isolada |-> FALSE, categoria |-> "Notebook"],
       [alternativas |-> <<<<"m", "o", "n", "i", "t", "o", "r">>>>, isolada |-> FALSE, categoria |-> "Monitor"],
       [alternativas |-> <<<<"t", "e", "c", "l", "a", "d", "o">>>>, isolada |-> FALSE, categoria |-> "Teclado"],
       [alternativas |-> <<<<"h", "e", "a", "d", "s", "e", "t">>>>, isolada |-> FALSE, categoria |-> "Headset"],
       [alternativas |-> <<<<"f", "o", "n", "e">>, <<"e", "a", "r", "p", "h", "o", "n", "e">>>>, isolada |-> FALSE, categoria |-> "Headset"],
       [alternativas |-> <<<<"m", "o", "u", "s", "e", "p", "a", "d">>>>, isolada |-> FALSE, categoria |-> "Mousepad"],
       [alternativas |-> <<<<"m", "o", "u", "s", "e">>>>, isolada |-> FALSE, categoria |-> "Mouse"],
       [alternativas |-> <<<<"w", "e", "b", "c", "a", "m">>, <<"c", "a", "m", "e", "r", "a">>>>, isolada |-> FALSE, categoria |-> "Webcam"],
       [alternativas |-> <<<<"s", "s", "d">>>>, isolada |-> FALSE, categoria |-> "Armazenamento"],
       [alternativas |-> <<<<"h", "d">>>>, isolada |-> TRUE, categoria |-> "Armazenamento"],
       [alternativas |-> <<<<"m", "e", "m", "ó", "r", "i", "a">>, <<"r", "a", "m">>, <<"d", "d", "r">>>>, isolada |-> FALSE, categoria |-> "Memória RAM"] >>

margens_padrao ==
    ("Notebook" :> 20) @@ ("Monitor" :> 20) @@ ("Memória RAM" :> 25)
    @@ ("Mouse" :> 35) @@ ("Teclado" :> 35) @@ ("Headset" :> 30)
    @@ ("Armazenamento" :> 25) @@ ("Webcam" :> 30) @@ ("Mousepad" :> 40)
    @@ ("Outros" :> 22)

\* \w of the pattern language: a letter, a digit or the underscore.
EhDePalavra(c) ==
    c \in Letra \cup Digitos \cup {"_"}

\* \b between the characters i-1 and i of nome: one side is a word character
\* and the other is not (the ends of the text count as not).
Fronteira(nome, i) ==
    LET antes == i - 1 \in 1..Len(nome) /\ EhDePalavra(nome[i - 1])
        depois == i \in 1..Len(nome) /\ EhDePalavra(nome[i])
    IN  antes # depois

\* re.search(padrao, nome) for the pattern of one rule.  The Mut variant ignores
\* the \b of the pattern.
CasaMut(regra, nome) ==
    \E a \in 1..Len(regra.alternativas) :
        PosicoesDe(regra.alternativas[a], nome) # {}
Casa(regra, nome) ==
    \E a \in 1..Len(regra.alternativas) :
        \E i \in PosicoesDe(regra.alternativas[a], nome) :
            regra.isolada =>
                /\ Fronteira(nome, i)
                /\ Fronteira(nome, i + Len(regra.alternativas[a]))

\* The loop of inferir_categoria from the k-th rule on.
RECURSIVE CategoriaDoTexto(_, _)
CategoriaDoTexto(nome, k) ==
    IF k > Len(regras) THEN "Outros"
    ELSE IF Casa(regras[k], nome) THEN regras[k].categoria
    ELSE CategoriaDoTexto(nome, k + 1)

\* inferir_categoria
InferirCategoria(produto) == CategoriaDoTexto(Lower(Letras[produto]), 1)

\* self.margens_padrao.get(categoria, 0.22), gerar_csv line 79
MargemSugerida(categoria) ==
    IF categoria \in DOMAIN margens_padrao THEN margens_padrao[categoria] ELSE 22

-----------------------------------------------------------------------------
(* The statistics engine: EstatisticasVendas *)

COLUNAS_NECESSARIAS ==
    {"data", "produto", "valor", "quantidade", "receita", "ano", "mes", "dia_semana"}

mapa_dias == <<"Seg", "Ter", "Qua", "Qui", "Sex", "Sáb", "Dom">>

\* MARGENS_CATEGORIA, in the order the dictionary declares its keys.
MARGENS_CATEGORIA ==
    << [palavra |-> <<"n", "o", "t", "e", "b", "o", "o", "k">>, margem |-> 10],
       [palavra |-> <<"m", "o", "n", "i", "t", "o", "r">>, margem |-> 15],
       [palavra |-> <<"s", "s", "d">>, margem |-> 25],
       [palavra |-> <<"h", "d">>, margem |-> 20],
       [palavra |-> <<"m", "e", "m", "ó", "r", "i", "a">>, margem |-> 30],
       [palavra |-> <<"m", "e", "m", "o", "r", "i", "a">>, margem |-> 30],
       [palavra |-> <<"r", "a", "m">>, margem |-> 30],
       [palavra |-> <<"m", "o", "u", "s", "e">>, margem |-> 50],
       [palavra |-> <<"t", "e", "c", "l", "a", "d", "o">>, margem |-> 45],
       [palavra |-> <<"h", "e", "a", "d", "s", "e", "t">>, margem |-> 40],
       [palavra |-> <<"f", "o", "n", "e">>, margem |-> 40],
       [palavra |-> <<"w", "e", "b", "c", "a", "m">>, margem |-> 35],
       [palavra |-> <<"c", "a", "d", "e", "i", "r", "a">>, margem |-> 30],
       [palavra |-> <<"m", "o", "u", "s", "e", "p", "a", "d">>, margem |-> 60] >>

MARGEM_PADRAO == 25

\* The loop of _margem_produto from the k-th keyword on: the first keyword
\* found in the name decides, and the default is returned when none is.
RECURSIVE MargemDoTexto(_, _)
MargemDoTexto(nome, k) ==
    IF k > Len(MARGENS_CATEGORIA) THEN MARGEM_PADRAO
    ELSE IF Contem(MARGENS_CATEGORIA[k].palavra, nome) THEN MARGENS_CATEGORIA[k].margem
    ELSE MargemDoTexto(nome, k + 1)

\* The Mut variant lets the last keyword found decide.
RECURSIVE UltimaMargemDoTexto(_, _)
UltimaMargemDoTexto(nome, k) ==
    IF k < 1 THEN MARGEM_PADRAO
    ELSE IF Contem(MARGENS_CATEGORIA[k].palavra, nome) THEN MARGENS_CATEGORIA[k].margem
    ELSE UltimaMargemDoTexto(nome, k - 1)

\* _margem_produto
MargemProdutoMut(nome_produto) ==
    UltimaMargemDoTexto(Lower(Letras[nome_produto]), Len(MARGENS_CATEGORIA))
MargemProduto(nome_produto) == MargemDoTexto(Lower(Letras[nome_produto]), 1)

\* _validar_dataframe, lines 69-75: data is parsed unless it is already a
\* datetime column, and the rows whose data is missing are dropped.
ValidarDataFrame(f) ==
    SelectSeq(MapSeq(f, LAMBDA r : [r EXCEPT !.data = Coerce(@)]),
              LAMBDA r : NotNa(r.data))

\* strftime("%d/%m/%Y"), or None for NaT.
SemData == [t |-> "None", dia |-> 0, mes |-> 0, ano |-> 0]
Strftime(ts) == [t |-> "dd/mm/aaaa", dia |-> DiaMesDe(ts), mes |-> MesDe(ts), ano |-> 2024]

Maximo(S) == CHOOSE x \in S : \A y \in S : y <= x
Minimo(S) == CHOOSE x \in S : \A y \in S : x <= y

Datas(f) == {f[k].data.v : k \in 1..Len(f)}

\* groupby("dia_semana")["receita"].sum().reindex(range(7), fill_value=0)
ReceitaPorDiaSemana(f) ==
    [i \in 1..7 |-> Soma(SelectSeq(f, LAMBDA r : r.dia_semana = i - 1),
                         LAMBDA r : r.receita)] \o <<>>

\* The Mut variant counts the weekdays from Sunday.
ReceitaDiaSemanaMut(receita_por_dia_semana) ==
    [d \in SeqToSet(mapa_dias) |->
        Round(receita_por_dia_semana[((CHOOSE i \in 1..7 : mapa_dias[i] = d) % 7) + 1], 1)]
\* receita_dia_semana, lines 177-180: the dictionary keyed by the name of the
\* weekday.
ReceitaDiaSemana(receita_por_dia_semana) ==
    [d \in SeqToSet(mapa_dias) |->
        Round(receita_por_dia_semana[CHOOSE i \in 1..7 : mapa_dias[i] = d], 1)]

\* idxmax(): the first position holding the maximum.
IdxMax(s) ==
    CHOOSE i \in 1..Len(s) :
        /\ \A j \in 1..Len(s) : s[j] <= s[i]
        /\ \A j \in 1..(i - 1) : s[j] < s[i]

\* groupby(["ano", "mes"])["receita"].sum().sort_index(): the months present,
\* in calendar order, and the revenue of each.
RECURSIVE EmOrdem(_)
EmOrdem(S) ==
    IF S = {} THEN <<>>
    ELSE LET m == CHOOSE x \in S :
                    \A y \in S : x[1] < y[1] \/ (x[1] = y[1] /\ x[2] <= y[2])
         IN  <<m>> \o EmOrdem(S \ {m})

\* The Mut variant takes the months in the reverse order.
MesesPresentesMut(f) ==
    LET meses == EmOrdem({<<f[k].ano, f[k].mes>> : k \in 1..Len(f)})
    IN  [k \in 1..Len(meses) |-> meses[Len(meses) + 1 - k]]
MesesPresentes(f) == EmOrdem({<<f[k].ano, f[k].mes>> : k \in 1..Len(f)})

ReceitaDoMes(f, m) ==
    Soma(SelectSeq(f, LAMBDA r : r.ano = m[1] /\ r.mes = m[2]), LAMBDA r : r.receita)

\* idxmin(): the first position holding the minimum.
IdxMin(s) ==
    CHOOSE i \in 1..Len(s) :
        /\ \A j \in 1..Len(s) : s[i] <= s[j]
        /\ \A j \in 1..(i - 1) : s[i] < s[j]

\* The flat metrics map built by calcular, lines 99-261, from the validated
\* frame f (which may have no row left).  Keys of the map that are modelled:
\* the financial totals, the period, the weekday and monthly seasonality and
\* the temporal density.
Metricas(f) ==
    LET receita_total == Soma(f, LAMBDA r : r.receita)
        total_transacoes == Len(f)
        total_unidades == Soma(f, LAMBDA r : r.quantidade.v)
        data_inicio == Minimo(Datas(f))
        data_fim == Maximo(Datas(f))
        dias_analisados == IF f # <<>> THEN (data_fim - data_inicio) \div 24 + 1 ELSE 0
        receita_por_dia_semana == ReceitaPorDiaSemana(f)
        meses == MesesPresentes(f)
        receita_mensal_group == MapSeq(meses, LAMBDA m : ReceitaDoMes(f, m))
        primeiro == receita_mensal_group[1]
        ultimo == receita_mensal_group[Len(meses)]
        dias_periodo == dias_analisados
        dias_com_venda == Cardinality(Datas(f))
    IN  [ gmv |-> Round(receita_total, 1),
          total_transacoes |-> total_transacoes,
          total_unidades |-> total_unidades \div 100,
          ticket_medio |-> IF total_transacoes > 0
                           THEN Round(receita_total, total_transacoes) ELSE 0,
          receita_media_diaria |-> IF Datas(f) # {}
                                   THEN Round(receita_total, Cardinality(Datas(f))) ELSE 0,
          data_inicio |-> IF f # <<>> THEN Strftime(data_inicio) ELSE SemData,
          data_fim |-> IF f # <<>> THEN Strftime(data_fim) ELSE SemData,
          dias_analisados |-> dias_analisados,
          receita_dia_semana |-> ReceitaDiaSemana(receita_por_dia_semana),
          melhor_dia_semana |-> mapa_dias[IdxMax(receita_por_dia_semana)],
          receita_mensal |-> [m \in SeqToSet(meses) |-> Round(ReceitaDoMes(f, m), 1)],
          crescimento_percentual |->
              IF Len(meses) >= 2 /\ primeiro > 0
              THEN Round((ultimo - primeiro) * 10000, primeiro) ELSE 0,
          melhor_mes |-> IF meses # <<>> THEN meses[IdxMax(receita_mensal_group)] ELSE <<>>,
          pior_mes |-> IF meses # <<>> THEN meses[IdxMin(receita_mensal_group)] ELSE <<>>,
          dias_com_venda |-> dias_com_venda,
          dias_periodo |-> dias_periodo,
          densidade_temporal_percent |->
              IF dias_periodo > 0 THEN Round(dias_com_venda * 10000, dias_periodo) ELSE 0 ]

\* df.groupby("produto")["receita"].sum(), lines 123-125: the products
\* present and the summed revenue of each.
ProdutosDe(f) == {f[k].produto.v : k \in 1..Len(f)}

ReceitaDoProdutoMut(f, p) ==
    LET deP == SelectSeq(f, LAMBDA r : r.produto.v = p) IN Head(deP).receita
ReceitaDoProduto(f, p) ==
    Soma(SelectSeq(f, LAMBDA r : r.produto.v = p), LAMBDA r : r.receita)

\* .sort_values(ascending=False), line 126: the entries in non-increasing
\* revenue.  The default sort is not stable, so the order it leaves among
\* products of equal revenue is not determined; every such order is kept.
RECURSIVE Decrescentes(_)
Decrescentes(E) ==
    IF E = {} THEN {<<>>}
    ELSE UNION {{<<e>> \o s : s \in Decrescentes(E \ {e})} :
                e \in {x \in E : \A y \in E : y.receita <= x.receita}}

\* receita_por_produto: the rankings the sort can return for the frame f.
ReceitaPorProduto(f) ==
    Decrescentes({[produto |-> p, receita |-> ReceitaDoProduto(f, p)] :
                    p \in ProdutosDe(f)})

\* .head(10)
Head10(s) == SubSeq(s, 1, IF Len(s) < 10 THEN Len(s) ELSE 10)

\* top_produtos, lines 136-139
TopProdutos(serie) ==
    MapSeq(Head10(serie), LAMBDA e : <<e.produto, Round(e.receita, 1)>>)

\* participacao_acumulada of the k-th entry of the ranking, lines 145-148, as
\* the numerator of a fraction of receita_total: the running sum of the
\* shares in percent.  With no revenue every share is the constant 0.  The
\* Mut variant takes the entry's own share.
ParticipacaoAcumuladaMut(serie, k, receita_total) ==
    IF receita_total > 0 THEN serie[k].receita * 100 ELSE 0
ParticipacaoAcumulada(serie, k, receita_total) ==
    IF receita_total > 0
    THEN SomaSeq([i \in 1..k |-> serie[i].receita * 100])
    ELSE 0

\* classifica_abc, lines 150-155, on the cumulative share num / den percent.
ClassificaAbc(num, den) ==
    IF num <= 80 * den THEN "A"
    ELSE IF num <= 95 * den THEN "B"
    ELSE "C"

\* curva_abc, lines 141-163: (produto, receita, classe) of the first ten
\* entries of the ranking.
CurvaAbc(serie, receita_total) ==
    LET den == IF receita_total > 0 THEN receita_total ELSE 1
    IN  [k \in 1..Len(Head10(serie)) |->
            <<serie[k].produto, Round(serie[k].receita, 1),
              ClassificaAbc(ParticipacaoAcumulada(serie, k, receita_total), den)>>]

\* (df["receita"] * margens).sum(), lines 118-119, in units of 1/10000.  The
\* Mut variant takes the margin column written by the cleaner.
LucroEstimadoMut(f) == Soma(f, LAMBDA r : r.receita * r.margem)
LucroEstimado(f) == Soma(f, LAMBDA r : r.receita * MargemProduto(r.produto.v))

\* The keys of the metrics map that depend on the products, lines 117-163,
\* for the ranking serie that the sort returned.
MetricasProdutos(f, serie) ==
    LET receita_total == Soma(f, LAMBDA r : r.receita)
        lucro_estimado == LucroEstimado(f)
    IN  [ lucro_estimado |-> Round(lucro_estimado, 100),
          margem_media_percent |->
              IF receita_total > 0 THEN Round(lucro_estimado * 100, receita_total) ELSE 0,
          top_produtos |-> TopProdutos(serie),
          curva_abc |-> CurvaAbc(serie, receita_total) ]

\* self.resultados as line 231 builds it.
Resultado(f, serie) == Metricas(f) @@ MetricasProdutos(f, serie)

\* A cleaned row as limpar produces it from a raw row.
LinhaLimpa(r) ==
    ComCategoria(
        CriarFeatures([ConverterLinha(r) EXCEPT !.quantidade = Val(AsTypeInt(r.quantidade.v))]),
        CategoriaPadrao, MargemPadraoLimpeza)

\* The rows calcular is called with: cleaned rows, a cleaned row whose data
\* was written back as text, and rows whose data does not parse or is NaT.
UniversoCalc ==
    << LinhaLimpa(Universo[1]),
       [LinhaLimpa(Universo[4]) EXCEPT !.data = Txt(@.v)],
       [LinhaLimpa(Universo[2]) EXCEPT !.data = Lixo],
       [LinhaLimpa(Universo[1]) EXCEPT !.data = NA] >>

\* Frames of up to max rows of UniversoCalc, up to row order: calcular reads
\* the rows through sums, counts, minima and maxima only, and the order of
\* products of equal revenue is every possible one whatever the row order.
FramesCalc(max) ==
    UNION {{[k \in 1..n |-> UniversoCalc[ix[k]]] :
               ix \in {s \in Indices(n, 1) : \A k \in 1..n : s[k] <= Len(UniversoCalc)}} :
           n \in 0..max}

COLUNAS_LIMPAS ==
    COLUNAS_NECESSARIAS \cup {"dia_mes", "semana_ano", "categoria", "margem", "lucro"}

ColunasCalc ==
    {COLUNAS_LIMPAS, COLUNAS_NECESSARIAS \ {"receita"}, {}}

\* How calcular ends on the frame f with the columns cols: the emptiness
\* check of line 94 comes before the column check of _validar_dataframe.
DesfechoMut(f, cols) ==
    IF COLUNAS_NECESSARIAS \ cols # {} THEN "ColunasFaltando"
    ELSE IF f = <<>> \/ cols = {} THEN "DataFrameVazio"
    ELSE "mapa"
Desfecho(f, cols) ==
    IF f = <<>> \/ cols = {} THEN "DataFrameVazio"
    ELSE IF COLUNAS_NECESSARIAS \ cols # {} THEN "ColunasFaltando"
    ELSE "mapa"

\* Whether a call gets the frame, with the columns, that the call before it
\* got.
Repetida(f, cols) == calc.feito /\ f = calc.df /\ cols = calc.colunas

\* calcular, lines 94-95: an empty frame (no row, or no column) is refused.
\* The Mut variant resets self.resultados before it raises.
CalcularVazioMut ==
    /\ calc.chamadas < MaxChamadas
    /\ \E f \in FramesCalc(MaxLinhasCalc), cols \in ColunasCalc :
          /\ Desfecho(f, cols) = "DataFrameVazio"
          /\ calc' = [feito |-> TRUE, df |-> f, colunas |-> cols,
                      tipo |-> "DataFrameVazio", faltando |-> {}, mapa |-> Vazio,
                      chamadas |-> calc.chamadas + 1,
                repetida |-> Repetida(f, cols)]
    /\ resultados' = Vazio
    /\ UNCHANGED <<objeto, consultas, limpezaVars, analiseVars>>
CalcularVazio ==
    /\ calc.chamadas < MaxChamadas
    /\ \E f \in FramesCalc(MaxLinhasCalc), cols \in ColunasCalc :
          /\ Desfecho(f, cols) = "DataFrameVazio"
          /\ calc' = [feito |-> TRUE, df |-> f, colunas |-> cols,
                      tipo |-> "DataFrameVazio", faltando |-> {}, mapa |-> Vazio,
                      chamadas |-> calc.chamadas + 1,
                repetida |-> Repetida(f, cols)]
    /\ UNCHANGED <<resultados, objeto, consultas, limpezaVars, analiseVars>>

\* calcular, line 97, and _validar_dataframe, lines 63-65: a required column
\* is missing.
CalcularIncompleto ==
    /\ calc.chamadas < MaxChamadas
    /\ \E f \in FramesCalc(MaxLinhasCalc), cols \in ColunasCalc :
          /\ Desfecho(f, cols) = "ColunasFaltando"
          /\ calc' = [feito |-> TRUE, df |-> f, colunas |-> cols,
                      tipo |-> "ColunasFaltando",
                      faltando |-> COLUNAS_NECESSARIAS \ cols, mapa |-> Vazio,
                      chamadas |-> calc.chamadas + 1,
                repetida |-> Repetida(f, cols)]
    /\ UNCHANGED <<resultados, objeto, consultas, limpezaVars, analiseVars>>

\* calcular, lines 97-263, on the frame f with the columns cols: the frame
\* is validated, the metrics are computed from the rows that are left, and
\* the new dictionary is bound to self.resultados and returned.  The Mut variant
\* computes them from the rows of the previous call as well.
CalcularSobreMut(f, cols) ==
    /\ Desfecho(f, cols) = "mapa"
    /\ LET validado == ValidarDataFrame(calc.df \o f)
       IN  \E serie \in ReceitaPorProduto(validado) :
               resultados' = Resultado(validado, serie)
    /\ objeto' = calc.chamadas + 1
    /\ calc' = [feito |-> TRUE, df |-> f, colunas |-> cols, tipo |-> "mapa",
                faltando |-> {}, mapa |-> resultados',
                chamadas |-> calc.chamadas + 1,
                repetida |-> Repetida(f, cols)]
    /\ UNCHANGED <<limpezaVars, analiseVars, consultas>>
CalcularSobre(f, cols) ==
    /\ Desfecho(f, cols) = "mapa"
    /\ LET validado == ValidarDataFrame(f)
       IN  \E serie \in ReceitaPorProduto(validado) :
               resultados' = Resultado(validado, serie)
    /\ objeto' = calc.chamadas + 1
    /\ calc' = [feito |-> TRUE, df |-> f, colunas |-> cols, tipo |-> "mapa",
                faltando |-> {}, mapa |-> resultados',
                chamadas |-> calc.chamadas + 1,
                repetida |-> Repetida(f, cols)]
    /\ UNCHANGED <<limpezaVars, analiseVars, consultas>>

Calcular ==
    /\ calc.chamadas < MaxChamadas
    /\ \E f \in FramesCalc(MaxLinhasCalc), cols \in ColunasCalc : CalcularSobre(f, cols)

NextCalc ==
    \/ CalcularVazio
    \/ CalcularIncompleto
    \/ Calcular

\* One statistics engine, called up to MaxChamadas times.
SpecCalc == Init /\ [][NextCalc]_vars

\* A row of the frame limpar returns: typed cells, the derived features and
\* the category, margin and profit that aplicar_categorias attached.
LinhaVenda(ts, p, valor, qtd, cat, margem) ==
    ComCategoria(
        CriarFeatures(Linha(Val(ts), Val(p), Val(valor), Val(AsTypeInt(qtd)))),
        cat, margem)

\* The cleaned rows the orchestrator hands to calcular.  Rows 1 and 2 fall on
\* the same calendar day at different hours, row 7 has the quantity 0.5 that
\* the cleaner truncated to 0, rows 7 and 12 are of the same product.
UniversoLimpo ==
    << LinhaVenda(Ts(0, 10),  "HD Externo",           5000,  100, "Armazenamento", 25),
       LinhaVenda(Ts(0, 8),   "Cabo HDMI",            4000,  100, "Outros", 20),
       LinhaVenda(Ts(32, 0),  "Mouse Gamer",          10000, 100, "Mouse", 35),
       LinhaVenda(Ts(32, 0),  "Mousepad Gamer",       1500,  200, "Mousepad", 40),
       LinhaVenda(Ts(60, 0),  "Webcam HD",            2000,  100, "Webcam", 30),
       LinhaVenda(Ts(2, 0),   "Cabo USB",             1000,  100, "Outros", 22),
       LinhaVenda(Ts(3, 0),   "Kit Teclado Mousepad", 8000,  50,  "Teclado", 35),
       LinhaVenda(Ts(96, 0),  "Memória DDR4",         6000,  100, "Memória RAM", 25),
       LinhaVenda(Ts(97, 0),  "Notebook Pro",         9000,  100, "Notebook", 20),
       LinhaVenda(Ts(1, 0),   "Monitor 24",           7000,  100, "Monitor", 20),
       LinhaVenda(Ts(66, 0),  "SSD 480GB",            8000,  100, "Armazenamento", 25),
       LinhaVenda(Ts(3, 12),  "Kit Teclado Mousepad", 1000,  100, "Teclado", 35),
       LinhaVenda(Ts(45, 0),  "Headset USB",          1500,  100, "Headset", 30) >>

\* The frames of the first n rows of UniversoLimpo: a cleaned frame is drawn
\* as a selection of the rows, sorted by data as limpar returns it, the rows
\* of one timestamp in either order.
FramesLimpos(n) ==
    UNION {Ordenacoes(MapSeq(SelectSeq([i \in 1..n |-> i], LAMBDA i : i \in S),
                             LAMBDA i : UniversoLimpo[i])) : S \in SUBSET (1..n)}

\* calcular as the orchestrator calls it, once, on the frame limpar returned.
CalcularLimpo ==
    /\ calc.chamadas = 0
    /\ \E f \in FramesLimpos(MaxLinhasEstat) : CalcularSobre(f, COLUNAS_LIMPAS)

NextEstat ==
    \/ CalcularLimpo

SpecEstat == Init /\ [][NextEstat]_vars

\* gerar_csv, lines 77-81: the category and the margin suggested for one
\* product name.
Inferir ==
    /\ Len(consultas) < MaxConsultas
    /\ \E p \in Nomes :
          consultas' = Append(consultas,
              [fn |-> "inferir_categoria", produto |-> p,
               categoria |-> InferirCategoria(p),
               margem |-> MargemSugerida(InferirCategoria(p))])
    /\ UNCHANGED <<limpezaVars, analiseVars, resultados, calc, objeto>>

\* _margem_produto applied to one product name, line 118.
ConsultarMargem ==
    /\ Len(consultas) < MaxConsultas
    /\ \E p \in Nomes :
          consultas' = Append(consultas,
              [fn |-> "_margem_produto", produto |-> p,
               categoria |-> "", margem |-> MargemProduto(p)])
    /\ UNCHANGED <<limpezaVars, analiseVars, resultados, calc, objeto>>

\* _margem_produto applied to a product whose name is a keyword of the table.
ConsultarPalavra ==
    /\ Len(consultas) < MaxConsultas
    /\ \E p \in Palavras :
          consultas' = Append(consultas,
              [fn |-> "_margem_produto", produto |-> p,
               categoria |-> "", margem |-> MargemProduto(p)])
    /\ UNCHANGED <<limpezaVars, analiseVars, resultados, calc, objeto>>

NextCategorias ==
    \/ Inferir
    \/ ConsultarMargem

\* The two product classifiers, each applied up to MaxConsultas times.
SpecCategorias == Init /\ [][NextCategorias]_vars

NextPalavras ==
    \/ ConsultarPalavra

\* _margem_produto applied, up to MaxConsultas times, to the keywords of its
\* own table.
SpecPalavras == Init /\ [][NextPalavras]_vars

-----------------------------------------------------------------------------
(* InsightsVendas.gerar: the messages derived from a metrics map *)

\* estatisticas.get(chave, padrao)
Get(d, chave, padrao) == IF chave \in DOMAIN d THEN d[chave] ELSE padrao

\* f"{x:.1f}" of a number held in hundredths: the number in tenths.
Fmt1(x) == Round(x, 10)

\* An insight: the key gerar writes and the values its message quotes.
Insight(chave, valores) == chave :> valores

\* Insight 1, lines 31-47.
InsightProdutoCampeao(e) ==
    LET top_produtos == Get(e, "top_produtos", <<>>)
        nome == top_produtos[1][1]
        receita == top_produtos[1][2]
        receita_total == Get(e, "gmv", 0)
    IN  IF top_produtos = <<>> THEN Vazio
        ELSE IF receita_total > 0
        THEN Insight("produto_campeao",
                     <<nome, receita, Round(receita * 1000, receita_total)>>)
        ELSE Insight("produto_campeao", <<nome, receita>>)

\* Insight 2, lines 50-58: None, the default of get, and "" are both false.
InsightMelhorDiaSemana(e) ==
    LET melhor_dia == Get(e, "melhor_dia_semana", "")
        receita_dia_semana == Get(e, "receita_dia_semana", Vazio)
    IN  IF melhor_dia # "" /\ DOMAIN receita_dia_semana # {}
        THEN Insight("melhor_dia_semana",
                     <<melhor_dia, Get(receita_dia_semana, melhor_dia, 0)>>)
        ELSE Vazio

\* Insight 3, lines 61-75: melhor_mes is the pair (ano, mes) that the key
\* "ano-mes" spells, or <<>> for None.
InsightMelhorMes(e) ==
    LET melhor_mes == Get(e, "melhor_mes", <<>>)
        receita_mensal == Get(e, "receita_mensal", Vazio)
    IN  IF melhor_mes # <<>> /\ melhor_mes \in DOMAIN receita_mensal
        THEN Insight("melhor_mes",
                     <<melhor_mes[2], melhor_mes[1], receita_mensal[melhor_mes]>>)
        ELSE Vazio

\* Insight 4, lines 78-93, on a growth held in hundredths of a percent.  The
\* Mut variant takes the first branch from 5 % on.
InsightCrescimentoMut(e) ==
    LET crescimento == Get(e, "crescimento_percentual", 0)
    IN  IF crescimento >= 5 * 100
        THEN Insight("crescimento", <<Fmt1(crescimento)>>)
        ELSE IF crescimento < (0 - 5) * 100
        THEN Insight("queda", <<Fmt1(IF crescimento < 0 THEN 0 - crescimento ELSE crescimento)>>)
        ELSE Insight("estabilidade", <<Fmt1(crescimento)>>)
InsightCrescimento(e) ==
    LET crescimento == Get(e, "crescimento_percentual", 0)
    IN  IF crescimento > 5 * 100
        THEN Insight("crescimento", <<Fmt1(crescimento)>>)
        ELSE IF crescimento < (0 - 5) * 100
        THEN Insight("queda", <<Fmt1(IF crescimento < 0 THEN 0 - crescimento ELSE crescimento)>>)
        ELSE Insight("estabilidade", <<Fmt1(crescimento)>>)

\* Insight 5, lines 96-109.
InsightConcentracao(e) ==
    LET curva_abc == Get(e, "curva_abc", <<>>)
        gmv == Get(e, "gmv", 0)
        classeA == SelectSeq(curva_abc, LAMBDA t : t[3] = "A")
        receita_a == SomaSeq([k \in 1..Len(classeA) |-> classeA[k][2]])
    IN  IF curva_abc # <<>> /\ gmv > 0
        THEN Insight("concentracao", <<Len(classeA), Round(receita_a * 1000, gmv)>>)
        ELSE Vazio

\* Insight 6, lines 112-133, on a density held in hundredths of a percent.
InsightQualidade(e) ==
    LET densidade == Get(e, "densidade_temporal_percent", 0)
    IN  IF densidade > 95 * 100 THEN Insight("qualidade_excelente", <<Fmt1(densidade)>>)
        ELSE IF densidade > 80 * 100 THEN Insight("qualidade_boa", <<Fmt1(densidade)>>)
        ELSE IF densidade > 60 * 100 THEN Insight("qualidade_media", <<Fmt1(densidade)>>)
        ELSE Insight("qualidade_baixa", <<Fmt1(densidade)>>)

\* Insight 7, lines 136-143.
InsightDiaPico(e) ==
    LET top_dias == Get(e, "top_dias", <<>>)
    IN  IF top_dias # <<>> THEN Insight("dia_pico", top_dias[1]) ELSE Vazio

\* Insight 8, lines 146-163, on a ticket held in hundredths.
InsightTicket(e) ==
    LET ticket_medio == Get(e, "ticket_medio", 0)
    IN  IF ticket_medio > 0
        THEN IF ticket_medio > 500 * 100 THEN Insight("ticket_alto", <<ticket_medio>>)
             ELSE IF ticket_medio > 200 * 100 THEN Insight("ticket_medio", <<ticket_medio>>)
             ELSE Insight("ticket_baixo", <<ticket_medio>>)
        ELSE Vazio

\* gerar, lines 28-165: the dictionary of the insights of the map e.
Gerar(e) ==
    InsightProdutoCampeao(e) @@ InsightMelhorDiaSemana(e) @@ InsightMelhorMes(e)
    @@ InsightCrescimento(e) @@ InsightConcentracao(e) @@ InsightQualidade(e)
    @@ InsightDiaPico(e) @@ InsightTicket(e)

\* One gerar call on the map e.
Gerado(e) == [feito |-> TRUE, estatisticas |-> e, dict |-> Gerar(e)]

\* receita_por_dia_full and top_dias, lines 212-223: the revenue summed by
\* timestamp, in non-increasing revenue, the first ten, each with its date
\* formatted.  The sort is not stable, so timestamps of equal revenue come in
\* either order.
ReceitaDoDia(f, d) == Soma(SelectSeq(f, LAMBDA r : r.data.v = d), LAMBDA r : r.receita)

TopDias(f) ==
    {MapSeq(Head10(s), LAMBDA x : <<Strftime(x.data), Round(x.receita, 1)>>) :
        s \in Decrescentes({[data |-> d, receita |-> ReceitaDoDia(f, d)] : d \in Datas(f)})}

\* The maps calcular returns for the cleaned frames of the first n rows of
\* UniversoLimpo, with every key of lines 231-261.
MapasCalculados(n) ==
    UNION {LET v == ValidarDataFrame(f)
           IN  {Resultado(v, serie) @@ [top_dias |-> dias] :
                    serie \in ReceitaPorProduto(v), dias \in TopDias(v)} :
           f \in FramesLimpos(n) \ {<<>>}}

\* Growth, density and ticket values on, next to and away from the
\* thresholds of gerar, in hundredths.
Crescimentos == {0 - 3000, 0 - 501, 0 - 500, 0 - 499, 0, 499, 500, 501, 3000}
Densidades == {0, 5999, 6000, 6001, 8000, 8001, 9500, 9501, 10000}
Tickets == {0, 20000, 20001, 50000, 50001}

\* Maps that hold any of the three keys with these values.
MapasAvulsos ==
    UNION {LET m == [crescimento_percentual |-> c, densidade_temporal_percent |-> d,
                     ticket_medio |-> t]
           IN  {[k \in K |-> m[k]] : K \in SUBSET DOMAIN m} :
           c \in Crescimentos, d \in Densidades, t \in Tickets}

\* gerar on a map calcular returned.
GerarCalculado ==
    /\ ~insights.feito
    /\ \E e \in MapasCalculados(MaxLinhasInsights) : insights' = Gerado(e)
    /\ UNCHANGED <<limpezaVars, resultados, calc, objeto, consultas, analise>>

\* gerar on a map given by the caller.
GerarAvulso ==
    /\ ~insights.feito
    /\ \E e \in MapasAvulsos : insights' = Gerado(e)
    /\ UNCHANGED <<limpezaVars, resultados, calc, objeto, consultas, analise>>

NextInsights ==
    \/ GerarCalculado
    \/ GerarAvulso

\* One insight generator, called once.
SpecInsights == Init /\ [][NextInsights]_vars

-----------------------------------------------------------------------------
(* AnalisadorVendas.executar: the six stages of one analysis *)

\* The stages in the order of lines 44-72.
ETAPAS_ANALISE ==
    <<"carregar", "limpar", "calcular", "insights", "graficos", "relatorio">>

\* The position after the stage etapa has returned; after the report, the
\* return statement of line 82.
Seguinte(etapa) ==
    LET k == CHOOSE i \in 1..Len(ETAPAS_ANALISE) : ETAPAS_ANALISE[i] = etapa
    IN  IF k < Len(ETAPAS_ANALISE) THEN ETAPAS_ANALISE[k + 1] ELSE "return"

\* A call of one of the stages that the orchestrator alone records.
Chamada(a, etapa) == [a EXCEPT !.chamadas[etapa] = @ + 1]

\* executar has no try/except: an exception raised by the stage etapa leaves
\* executar at once, and nothing is returned.  The Mut variant goes on to
\* the next stage.
AoFalharMut(a, etapa, tipo) ==
    [a EXCEPT !.pc = Seguinte(etapa), !.erro = [etapa |-> etapa, tipo |-> tipo]]
AoFalhar(a, etapa, tipo) ==
    [a EXCEPT !.pc = "abortado", !.erro = [etapa |-> etapa, tipo |-> tipo]]

\* Lines 44-45 and carregar, lines 93-97: the loader returns the frame of a
\* file that holds at least one record.
Carregar ==
    /\ analise.pc = "carregar"
    /\ \E f \in Frames(MaxLinhasAnalise) \ {<<>>} :
          analise' = [Chamada(analise, "carregar") EXCEPT !.pc = Seguinte("carregar"),
                                                          !.df = f]
    /\ UNCHANGED <<limpezaVars, resultados, calc, objeto, consultas, insights>>

\* carregar, lines 68-92: FileNotFoundError when the path is no file,
\* ValueError when the file cannot be parsed or holds no record.
CarregarFalha ==
    /\ analise.pc = "carregar"
    /\ \E tipo \in {"FileNotFoundError", "ValueError"} :
          analise' = AoFalhar(Chamada(analise, "carregar"), "carregar", tipo)
    /\ UNCHANGED <<limpezaVars, resultados, calc, objeto, consultas, insights>>

\* Lines 48-49: limpar of a new LimpezaDados on the loaded frame.
AnalisarLimpar ==
    /\ analise.pc = "limpar"
    /\ LimparInicio({analise.df}, 1)

AnalisarLimparColunasAusentes ==
    /\ analise.pc = "limpar"
    /\ LimparColunasAusentes({analise.df}, 1)

\* Line 49: limpar returned, df_limpo is bound.
LimpezaRetorna ==
    /\ analise.pc = "limpar"
    /\ pc = "done"
    /\ analise' = [analise EXCEPT !.pc = Seguinte("limpar"), !.df_limpo = retorno.df]
    /\ UNCHANGED <<limpezaVars, resultados, calc, objeto, consultas, insights>>

\* Line 49: limpar raised.
LimpezaFalha ==
    /\ analise.pc = "limpar"
    /\ pc = "failed"
    /\ analise' = AoFalhar(analise, "limpar", erro.tipo)
    /\ UNCHANGED <<limpezaVars, resultados, calc, objeto, consultas, insights>>

\* calcular, lines 94-97, on the frame f with the columns cols, when it
\* raises: the frame is empty or a required column is missing.
CalcularRecusado(f, cols) ==
    /\ Desfecho(f, cols) # "mapa"
    /\ calc' = [feito |-> TRUE, df |-> f, colunas |-> cols,
                tipo |-> Desfecho(f, cols),
                faltando |-> IF Desfecho(f, cols) = "ColunasFaltando"
                             THEN COLUNAS_NECESSARIAS \ cols ELSE {},
                mapa |-> Vazio, chamadas |-> calc.chamadas + 1,
                repetida |-> Repetida(f, cols)]
    /\ UNCHANGED <<resultados, objeto, consultas, limpezaVars, analiseVars>>

\* The columns of the frame limpar returned: those of the loaded frame and
\* the ones written by criar_features_derivadas and aplicar_categorias.
ColunasDoLimpo == colunas \cup (COLUNAS_LIMPAS \ SeqToSet(COLUNAS_OBRIGATORIAS))

\* Lines 53-54: calcular of a new EstatisticasVendas on df_limpo.
AnalisarCalcular ==
    /\ analise.pc = "calcular"
    /\ calc.chamadas = 0
    /\ CalcularSobre(analise.df_limpo, ColunasDoLimpo)

AnalisarCalcularRecusado ==
    /\ analise.pc = "calcular"
    /\ calc.chamadas = 0
    /\ CalcularRecusado(analise.df_limpo, ColunasDoLimpo)

\* Line 54: calcular returned, estatisticas is bound to the map, which holds
\* top_dias as well.
CalculoRetorna ==
    /\ analise.pc = "calcular"
    /\ calc.feito /\ calc.tipo = "mapa"
    /\ \E dias \in TopDias(ValidarDataFrame(calc.df)) :
          analise' = [analise EXCEPT !.pc = Seguinte("calcular"),
                                     !.estatisticas = resultados @@ [top_dias |-> dias]]
    /\ UNCHANGED <<limpezaVars, resultados, calc, objeto, consultas, insights>>

\* Line 54: calcular raised.
CalculoFalha ==
    /\ analise.pc = "calcular"
    /\ calc.feito /\ calc.tipo # "mapa"
    /\ analise' = AoFalhar(analise, "calcular", "ValueError")
    /\ UNCHANGED <<limpezaVars, resultados, calc, objeto, consultas, insights>>

\* Lines 59-60: gerar of a new InsightsVendas on the map.
AnalisarInsights ==
    /\ analise.pc = "insights"
    /\ insights' = Gerado(analise.estatisticas)
    /\ analise' = [Chamada(analise, "insights") EXCEPT !.pc = Seguinte("insights"),
                                                       !.insights = insights'.dict]
    /\ UNCHANGED <<limpezaVars, resultados, calc, objeto, consultas>>

\* The keys of caminhos_graficos, graficos.py lines 191-207; the heatmap is
\* left out when its table is empty.
Caminhos(f) ==
    {"receita_diaria", "receita_mensal", "receita_dia_semana", "top_produtos",
     "distribuicao_ticket", "distribuicao_ticket_seaborn"}
    \cup (IF f # <<>> THEN {"heatmap_mes_semana"} ELSE {})

\* Lines 65-66: gerar_todos of a new GraficosVendas wrote every chart.
GerarTodos ==
    /\ analise.pc = "graficos"
    /\ analise' = [Chamada(analise, "graficos") EXCEPT !.pc = Seguinte("graficos"),
                                                       !.caminhos = Caminhos(analise.df_limpo)]
    /\ UNCHANGED <<limpezaVars, resultados, calc, objeto, consultas, insights>>

\* Lines 65-66: a chart could not be drawn or saved (graficos.py lines 22,
\* 32 and 121).
GerarTodosFalha ==
    /\ analise.pc = "graficos"
    /\ \E tipo \in {"OSError", "ImportError"} :
          analise' = AoFalhar(Chamada(analise, "graficos"), "graficos", tipo)
    /\ UNCHANGED <<limpezaVars, resultados, calc, objeto, consultas, insights>>

\* Lines 71-72: gerar of a new GeradorRelatorioHTML wrote the report from
\* the map, the insights and the chart paths.
GerarRelatorio ==
    /\ analise.pc = "relatorio"
    /\ analise' = [Chamada(analise, "relatorio") EXCEPT
                       !.pc = Seguinte("relatorio"),
                       !.relatorio_com = analise.estatisticas]
    /\ UNCHANGED <<limpezaVars, resultados, calc, objeto, consultas, insights>>

\* Lines 71-72: the report could not be written (gerador_html.py lines 22
\* and 451).
GerarRelatorioFalha ==
    /\ analise.pc = "relatorio"
    /\ analise' = AoFalhar([Chamada(analise, "relatorio") EXCEPT
                                !.relatorio_com = analise.estatisticas],
                           "relatorio", "OSError")
    /\ UNCHANGED <<limpezaVars, resultados, calc, objeto, consultas, insights>>

\* Line 82: return df_limpo, estatisticas, insights.
Retornar ==
    /\ analise.pc = "return"
    /\ analise' = [analise EXCEPT
                       !.pc = "fim",
                       !.retorno = [ok |-> TRUE, df |-> analise.df_limpo,
                                    estatisticas |-> analise.estatisticas,
                                    insights |-> analise.insights]]
    /\ UNCHANGED <<limpezaVars, resultados, calc, objeto, consultas, insights>>

\* The stages of limpar inside executar: the loader never returns a frame
\* without records, so the division of the last stage is always defined.
EstagiosDaAnalise ==
    \/ RemoverDuplicatas
    \/ ConverterTipos
    \/ RemoverRegistrosInvalidos
    \/ RemoverOutliersExtremos
    \/ CriarFeaturesDerivadas
    \/ AplicarCategorias
    \/ AplicarCategoriasSemArquivo
    \/ OrdenarDados
    \/ LimparFim

NextAnalise ==
    \/ Carregar
    \/ CarregarFalha
    \/ AnalisarLimpar
    \/ AnalisarLimparColunasAusentes
    \/ EstagiosDaAnalise
    \/ LimpezaRetorna
    \/ LimpezaFalha
    \/ AnalisarCalcular
    \/ AnalisarCalcularRecusado
    \/ CalculoRetorna
    \/ CalculoFalha
    \/ AnalisarInsights
    \/ GerarTodos
    \/ GerarTodosFalha
    \/ GerarRelatorio
    \/ GerarRelatorioFalha
    \/ Retornar

\* One executar call.
SpecAnalise == Init /\ [][NextAnalise]_vars

-----------------------------------------------------------------------------
(* Properties of the cleaner *)

Obrigatorias == SeqToSet(COLUNAS_OBRIGATORIAS)

\* C1: every record of the frame returned by limpar has a valid date, a unit
\* price > 0 and a whole quantity > 0, also when the raw quantity was a
\* positive non-integer such as 0.5.
C1_RegistrosLimposValidos ==
    pc = "done" =>
        \A k \in 1..Len(retorno.df) :
            LET r == retorno.df[k]
            IN  /\ r.data.t = "val"
                /\ r.valor.t = "val" /\ r.valor.v > 0
                /\ r.quantidade.t = "val" /\ r.quantidade.v > 0
                /\ r.quantidade.v % 100 = 0

\* C2: in the frame returned by limpar, receita equals valor x quantidade of
\* the record's own final values (all in hundredths, so the product of the
\* two equals 100 times receita).
C2_ReceitaValorQuantidade ==
    pc = "done" =>
        \A k \in 1..Len(retorno.df) :
            retorno.df[k].receita * 100
                = retorno.df[k].valor.v * retorno.df[k].quantidade.v

C2_Witness ==
    /\ pc = "done"
    /\ \E k \in 1..Len(retorno.df) : retorno.df[k].receita = 2000
    /\ \E k \in 1..Len(retorno.df) :
          retorno.df[k].quantidade.v = 0 /\ retorno.df[k].receita = 0

\* C3: the stages of a run execute in the fixed order, each at most once and
\* none before the previous one has finished; a run that returns has executed
\* all eight exactly once; registros_finais and taxa_aproveitamento are
\* written only after the last stage.
C3_OrdemDasEtapas ==
    LET ordem == <<"validar_colunas", "remover_duplicatas", "converter_tipos",
                   "remover_registros_invalidos", "remover_outliers_extremos",
                   "criar_features_derivadas", "aplicar_categorias", "ordenar_dados">>
    IN  /\ Len(etapas) <= Len(ordem)
        /\ etapas = SubSeq(ordem, 1, Len(etapas))
        /\ pc \in SeqToSet(ordem) => pc = ordem[Len(etapas) + 1]
        /\ pc \in {"fim", "done"} => etapas = ordem
        /\ escritas \cap {"registros_finais", "taxa_aproveitamento"} # {}
              => etapas = ordem /\ pc \in {"done", "failed"}

C3_Witness ==
    /\ pc = "done"
    /\ Len(etapas) = 8
    /\ Len(retorno.df) >= 2
    /\ "taxa_aproveitamento" \in escritas

\* C4: a missing required column is the only fatal condition of limpar: on a
\* frame that has the four required columns, zero rows included, the run
\* does not raise.
C4_SoColunaAusenteFatal ==
    (execucoes > 0 /\ Obrigatorias \subseteq colunas) => pc # "failed"

\* C5: limpar raises the column error iff a required column is absent; the
\* error names exactly the absent required columns and the columns present;
\* when it is raised no stage after the validation has run and nothing is
\* returned.  A frame missing only quantidade names quantidade.
C5_ErroDeColunas ==
    execucoes > 0 =>
        /\ erro.tipo = "ColunasAusentes" <=> Obrigatorias \ colunas # {}
        /\ erro.tipo = "ColunasAusentes" =>
              /\ SeqToSet(erro.faltando) = Obrigatorias \ colunas
              /\ Len(erro.faltando) = Cardinality(Obrigatorias \ colunas)
              /\ erro.disponiveis = colunas
              /\ pc = "failed"
              /\ etapas = <<"validar_colunas">>
              /\ ~retorno.ok
        /\ colunas = Obrigatorias \ {"quantidade"} => erro.faltando = <<"quantidade">>

C5_Witness ==
    /\ erro.tipo = "ColunasAusentes"
    /\ erro.faltando = <<"quantidade">>
    /\ Len(entrada) > 0

\* C6: after any sequence of limpar calls on one cleaner, each of them
\* successful or aborted by the column error, with or without the category
\* reference file, every counter in the report was written by the most
\* recent run, and a report retrieved after a completed run is not changed
\* by a later run.
C6_RelatorioPorExecucao ==
    (\A i \in 1..Len(historico) : historico[i] \in {"done", "ColunasAusentes"}) =>
        /\ (Parado /\ execucoes > 0) => DOMAIN relatorio \subseteq escritas
        /\ (ref.tem /\ ref.quando = "done") => ref.visto = relatorio

\* C7: when the category reference file is absent, every cleaned record gets
\* "Outros" and the default margin, lucro is computed from that margin, and
\* produtos_sem_categoria is recorded in the report of that run.
C7_SemArquivoDeCategorias ==
    (pc = "done" /\ ~arquivo.existe) =>
        /\ \A k \in 1..Len(retorno.df) :
              LET r == retorno.df[k]
              IN  /\ r.categoria = "Outros"
                  /\ r.margem = 20
                  /\ 2 * (100 * r.lucro - r.receita * r.margem) <= 100
                  /\ 2 * (r.receita * r.margem - 100 * r.lucro) <= 100
        /\ "produtos_sem_categoria" \in escritas
        /\ relatorio["produtos_sem_categoria"] = Len(retorno.df)

\* C8: after a completed run taxa_aproveitamento is registros_finais /
\* registros_iniciais x 100 rounded to 2 decimals (the hundredth nearest to
\* the quotient), registros_iniciais being the row count of the raw frame and
\* registros_finais that of the returned frame; 80 of 100 rows give 80.00.
C8_TaxaAproveitamento ==
    /\ TaxaAproveitamento(80, 100) = 8000
    /\ pc = "done" =>
          LET inicial == Len(entrada)
              final == Len(retorno.df)
              taxa == relatorio["taxa_aproveitamento"]
          IN  /\ relatorio["registros_iniciais"] = inicial
              /\ relatorio["registros_finais"] = final
              /\ 2 * (taxa * inicial - final * 10000) <= inicial
              /\ 2 * (final * 10000 - taxa * inicial) <= inicial

C8_Witness ==
    /\ pc = "done"
    /\ Len(entrada) = 3
    /\ Len(retorno.df) = 2
    /\ relatorio["taxa_aproveitamento"] = 6667

-----------------------------------------------------------------------------
(* Properties of the statistics engine *)

\* C9: calcular on a frame with zero rows fails with the empty-frame error
\* and returns no map, whatever columns the frame has.
C9_FrameVazioRecusado ==
    (calc.feito /\ Len(calc.df) = 0) =>
        /\ calc.tipo = "DataFrameVazio"
        /\ calc.mapa = Vazio

C9_Witness ==
    /\ calc.feito
    /\ Len(calc.df) = 0
    /\ calc.colunas = COLUNAS_NECESSARIAS \ {"receita"}
    /\ calc.tipo = "DataFrameVazio"

\* C10: calcular never returns a map computed from zero rows, also when the
\* frame is not empty but every row is dropped for its unparseable date.
C10_NuncaMapaDeZeroLinhas ==
    (calc.feito /\ calc.tipo = "mapa") => calc.mapa.total_transacoes > 0

\* The last calcular call returned a map.
Mapeado == calc.feito /\ calc.tipo = "mapa"

\* The frame the last calcular call computed its map from.
Validado == ValidarDataFrame(calc.df)

\* The revenue of the records of the frame vf that satisfy P, as a plain sum.
SomaSe(vf, P(_)) ==
    SomaSeq([k \in 1..Len(vf) |-> IF P(vf[k]) THEN vf[k].receita ELSE 0] \o <<>>)

\* C11: in curva_abc the entries are in non-increasing revenue and the class
\* of each is decided by its cumulative share of the total revenue, its own
\* share plus the shares of the entries before it: A up to 80 %, B above 80 %
\* and up to 95 %, C above 95 %.
C11_ClassePorParticipacaoAcumulada ==
    Mapeado =>
        LET vf == Validado
            curva == calc.mapa.curva_abc
            total == SomaSe(vf, LAMBDA r : TRUE)
            Acumulado(k) == SomaSeq([i \in 1..k |-> curva[i][2]] \o <<>>)
        IN  \A k \in 1..Len(curva) :
                /\ curva[k][2] = SomaSe(vf, LAMBDA r : r.produto.v = curva[k][1])
                /\ k > 1 => curva[k - 1][2] >= curva[k][2]
                /\ curva[k][3] =
                      IF 100 * Acumulado(k) <= 80 * total THEN "A"
                      ELSE IF 100 * Acumulado(k) <= 95 * total THEN "B"
                      ELSE "C"

\* The revenues 100, 50, 30, 20 get the classes A, A, B, C.
C11_Witness ==
    /\ Mapeado
    /\ [k \in 1..Len(calc.mapa.curva_abc) |->
            <<calc.mapa.curva_abc[k][2], calc.mapa.curva_abc[k][3]>>]
         = << <<10000, "A">>, <<5000, "A">>, <<3000, "B">>, <<2000, "C">> >>

\* C12: receita_dia_semana has exactly the seven keys Seg .. Dom, and the
\* value of the key of weekday index i (0 = Monday) is the summed revenue of
\* the records of that weekday, 0 when there is none.
C12_SeteDiasDaSemana ==
    Mapeado =>
        LET vf == Validado
            dias == <<"Seg", "Ter", "Qua", "Qui", "Sex", "Sáb", "Dom">>
        IN  /\ DOMAIN calc.mapa.receita_dia_semana = {dias[i] : i \in 1..7}
            /\ \A i \in 0..6 :
                  calc.mapa.receita_dia_semana[dias[i + 1]] =
                      SomaSe(vf, LAMBDA r : DiaSemanaDe(r.data.v) = i)

\* Sales on Monday and Friday only: the five other keys hold 0.
C12_Witness ==
    /\ Mapeado
    /\ calc.mapa.receita_dia_semana["Seg"] > 0
    /\ calc.mapa.receita_dia_semana["Sex"] > 0
    /\ \A d \in {"Ter", "Qua", "Qui", "Sáb", "Dom"} : calc.mapa.receita_dia_semana[d] = 0

\* C13: crescimento_percentual is (revenue of the last month present minus
\* revenue of the first month present) / revenue of the first month x 100,
\* and 0 when fewer than two months are present or the first month has no
\* revenue; the months in between play no part.
C13_CrescimentoPrimeiroUltimoMes ==
    Mapeado =>
        LET vf == Validado
            meses == {<<vf[k].ano, vf[k].mes>> : k \in 1..Len(vf)}
            Antes(a, b) == a[1] < b[1] \/ (a[1] = b[1] /\ a[2] <= b[2])
            DoMes(m) == SomaSe(vf, LAMBDA r : r.ano = m[1] /\ r.mes = m[2])
        IN  IF Cardinality(meses) < 2 THEN calc.mapa.crescimento_percentual = 0
            ELSE LET primeiro == CHOOSE m \in meses : \A n \in meses : Antes(m, n)
                     ultimo == CHOOSE m \in meses : \A n \in meses : Antes(n, m)
                 IN  calc.mapa.crescimento_percentual =
                        IF DoMes(primeiro) = 0 THEN 0
                        ELSE Round((DoMes(ultimo) - DoMes(primeiro)) * 10000,
                                   DoMes(primeiro))

\* January 100.00 and February 130.00 give 30.00 %.
C13_Witness ==
    /\ Mapeado
    /\ calc.mapa.receita_mensal = (<<2024, 1>> :> 10000) @@ (<<2024, 2>> :> 13000)
    /\ calc.mapa.crescimento_percentual = 3000

\* C14: dias_com_venda is the number of distinct calendar days among the
\* records, whatever their time of day; dias_periodo is dias_analisados, the
\* days from the first to the last date plus one; the density is their
\* quotient x 100.
C14_DiasDeCalendario ==
    Mapeado =>
        LET vf == Validado
            dias == {DiaDoAno(vf[k].data.v) : k \in 1..Len(vf)}
            horas == {vf[k].data.v : k \in 1..Len(vf)}
            periodo == IF vf = <<>> THEN 0
                       ELSE (Maximo(horas) - Minimo(horas)) \div 24 + 1
        IN  /\ calc.mapa.dias_com_venda = Cardinality(dias)
            /\ calc.mapa.dias_periodo = periodo
            /\ calc.mapa.dias_analisados = periodo
            /\ calc.mapa.densidade_temporal_percent =
                  IF periodo > 0 THEN Round(Cardinality(dias) * 10000, periodo) ELSE 0

C16_MapaNovoACadaChamada ==
    [][ calc'.chamadas # calc.chamadas =>
            IF calc'.tipo = "mapa"
            THEN /\ resultados' = calc'.mapa
                 /\ objeto' > objeto
                 /\ LET f == ValidarDataFrame(calc'.df)
                    IN  \E serie \in ReceitaPorProduto(f) : resultados' = Resultado(f, serie)
            ELSE /\ calc'.mapa = Vazio
                 /\ resultados' = resultados
                 /\ objeto' = objeto ]_vars

\* A call failed after a call had returned a map: the map is still stored.
C16_Witness ==
    /\ calc.chamadas = 2
    /\ calc.tipo \in {"DataFrameVazio", "ColunasFaltando"}
    /\ calc.mapa = Vazio
    /\ objeto = 1
    /\ resultados # Vazio
    /\ resultados.total_transacoes > 0

\* C17: top_produtos holds min(10, number of products) pairs, each of a
\* different product with the sum of the revenue of its records, in
\* non-increasing revenue, and no product left out has more revenue than a
\* product listed.
C17_TopProdutos ==
    Mapeado =>
        LET vf == Validado
            top == calc.mapa.top_produtos
            produtos == {vf[k].produto.v : k \in 1..Len(vf)}
            Do(p) == SomaSe(vf, LAMBDA r : r.produto.v = p)
            listados == {top[i][1] : i \in 1..Len(top)}
        IN  /\ Len(top) = IF Cardinality(produtos) < 10 THEN Cardinality(produtos) ELSE 10
            /\ listados \subseteq produtos
            /\ Cardinality(listados) = Len(top)
            /\ \A i \in 1..Len(top) : top[i][2] = Do(top[i][1])
            /\ \A i \in 1..Len(top), j \in 1..Len(top) : i < j => top[i][2] >= top[j][2]
            /\ \A p \in produtos \ listados : \A i \in 1..Len(top) : Do(p) <= top[i][2]

\* Eleven products: ten are listed, and the one left out has the revenue of
\* the last one listed.
C17_Witness ==
    /\ Mapeado
    /\ Len(calc.mapa.top_produtos) = 10
    /\ LET vf == Validado
       IN  /\ Cardinality({vf[k].produto.v : k \in 1..Len(vf)}) = 11
           /\ \E k \in 1..Len(vf) :
                 /\ \A i \in 1..10 : calc.mapa.top_produtos[i][1] # vf[k].produto.v
                 /\ SomaSe(vf, LAMBDA r : r.produto.v = vf[k].produto.v)
                       = calc.mapa.top_produtos[10][2]

-----------------------------------------------------------------------------
(* Properties of the two product classifiers *)

\* The rules of the keyword heuristic that match the lower-cased name of p.
RegrasQueCasam(p) == {k \in 1..Len(regras) : Casa(regras[k], Lower(Letras[p]))}

\* The name has the pair "hd" with no letter, digit or underscore next to it.
TemHdIsolado(nome) ==
    \E i \in 1..(Len(nome) - 1) :
        /\ nome[i] = "h" /\ nome[i + 1] = "d"
        /\ i > 1 => ~EhDePalavra(nome[i - 1])
        /\ i + 2 <= Len(nome) => ~EhDePalavra(nome[i + 2])

\* What every answer of the keyword heuristic satisfies: the category is the
\* one of the first rule, in declared order, that matches the lower-cased
\* name, and "Outros" with the margin 0.22 when no rule matches; the rule of
\* "hd" matches only a whole word; "Webcam HD" is a Webcam.
PrimeiraRegra(c) ==
    /\ c.categoria = IF RegrasQueCasam(c.produto) = {} THEN "Outros"
                     ELSE regras[Minimo(RegrasQueCasam(c.produto))].categoria
    /\ c.margem = margens_padrao[c.categoria]
    /\ RegrasQueCasam(c.produto) = {} => c.margem = 22
    /\ \A k \in 1..Len(regras) :
          regras[k].isolada =>
              (k \in RegrasQueCasam(c.produto) <=> TemHdIsolado(Lower(Letras[c.produto])))
    /\ c.produto = "Webcam HD" => c.categoria = "Webcam"

\* In the declared order a pattern that contains another pattern comes before
\* it.
EspecificaAntesDeGeral ==
    \A j \in 1..Len(regras), k \in 1..Len(regras) :
        \A a \in 1..Len(regras[j].alternativas), b \in 1..Len(regras[k].alternativas) :
            (j # k /\ Contem(regras[k].alternativas[b], regras[j].alternativas[a])) => j < k

\* C18, as stated: the first matching rule decides, and so every name that
\* contains "mousepad" is a Mousepad.
C18_MousepadSempreMousepad ==
    /\ EspecificaAntesDeGeral
    /\ \A n \in 1..Len(consultas) :
          consultas[n].fn = "inferir_categoria" =>
              /\ PrimeiraRegra(consultas[n])
              /\ Contem(<<"m", "o", "u", "s", "e", "p", "a", "d">>,
                        Lower(Letras[consultas[n].produto]))
                    => consultas[n].categoria = "Mousepad"

\* C18, amended: the first matching rule decides, and so a name that contains
\* "mousepad" is never a Mouse, and is a Mousepad unless one of the rules
\* declared before that of "mousepad" matches it too.
C18_PrimeiraRegraDecide ==
    /\ EspecificaAntesDeGeral
    /\ \A n \in 1..Len(consultas) :
          consultas[n].fn = "inferir_categoria" =>
              /\ PrimeiraRegra(consultas[n])
              /\ Contem(<<"m", "o", "u", "s", "e", "p", "a", "d">>,
                        Lower(Letras[consultas[n].produto]))
                    => /\ consultas[n].categoria # "Mouse"
                       /\ (\A k \in RegrasQueCasam(consultas[n].produto) :
                              \A j \in 1..Len(regras) :
                                  regras[j].categoria = "Mousepad" => j <= k)
                             => consultas[n].categoria = "Mousepad"

\* "Mousepad Gamer" was classified as Mousepad and "Cabo HDMI", whose "hd" is
\* inside a word, as Outros.
C18_Witness ==
    /\ Len(consultas) = 2
    /\ consultas[1] = [fn |-> "inferir_categoria", produto |-> "Mousepad Gamer",
                       categoria |-> "Mousepad", margem |-> 40]
    /\ consultas[2] = [fn |-> "inferir_categoria", produto |-> "Cabo HDMI",
                       categoria |-> "Outros", margem |-> 22]

\* C19: _margem_produto returns the margin of the first keyword, in the order
\* the table declares them, that occurs in the lower-cased name, and 0.25
\* when none occurs; the answer is a margin of the table or 0.25.
C19_PrimeiraPalavraDaTabela ==
    \A n \in 1..Len(consultas) :
        consultas[n].fn = "_margem_produto" =>
            LET nome == Lower(Letras[consultas[n].produto])
                achadas == {k \in 1..Len(MARGENS_CATEGORIA) :
                              Contem(MARGENS_CATEGORIA[k].palavra, nome)}
            IN  /\ consultas[n].margem =
                      IF achadas = {} THEN 25
                      ELSE MARGENS_CATEGORIA[Minimo(achadas)].margem
                /\ consultas[n].margem \in
                      {MARGENS_CATEGORIA[k].margem : k \in 1..Len(MARGENS_CATEGORIA)} \cup {25}

\* "Kit Teclado Mousepad" holds three keywords and gets the margin of "mouse",
\* the first of them in the table; "Cabo USB" holds none and gets 0.25.
C19_Witness ==
    /\ Len(consultas) = 2
    /\ consultas[1] = [fn |-> "_margem_produto", produto |-> "Kit Teclado Mousepad",
                       categoria |-> "", margem |-> 50]
    /\ consultas[2] = [fn |-> "_margem_produto", produto |-> "Cabo USB",
                       categoria |-> "", margem |-> 25]

-----------------------------------------------------------------------------
(* Properties of the estimated profit *)

\* C20: lucro_estimado is the sum over the records of receita times the
\* table margin of the product name, and it and margem_media_percent are the
\* same for a frame that has the same produto and receita and other, or no,
\* categoria, margem and lucro.
C20_LucroSoDeProdutoEReceita ==
    Mapeado =>
        LET vf == Validado
            semColunas == [k \in 1..Len(vf) |->
                              [vf[k] EXCEPT !.categoria = "", !.margem = 0, !.lucro = 0]]
            semArquivo == SemArquivo(vf)
            Lucros(f) == [l |-> MetricasProdutos(f, <<>>).lucro_estimado,
                          m |-> MetricasProdutos(f, <<>>).margem_media_percent]
            daqui == [l |-> calc.mapa.lucro_estimado, m |-> calc.mapa.margem_media_percent]
        IN  /\ calc.mapa.lucro_estimado =
                  Round(SomaSeq([k \in 1..Len(vf) |->
                            vf[k].receita * MargemProduto(vf[k].produto.v)] \o <<>>), 100)
            /\ Lucros(semColunas) = daqui
            /\ Lucros(semArquivo) = daqui

\* The cleaner attached margins other than those of the table, and the
\* estimate is not the sum of the lucro column.
C20_Witness ==
    /\ Mapeado
    /\ LET vf == Validado
       IN  /\ Len(vf) >= 2
           /\ \E k \in 1..Len(vf) : vf[k].margem # MargemProduto(vf[k].produto.v)
           /\ calc.mapa.lucro_estimado # SomaSeq([k \in 1..Len(vf) |-> vf[k].lucro] \o <<>>)

-----------------------------------------------------------------------------
(* Properties of the stages of limpar *)

\* How many rows of the frame s are equal to the row r.
Copias(s, r) == Cardinality({k \in 1..Len(s) : s[k] = r})

\* C23: remover_duplicatas runs on the raw values, before any conversion; it
\* keeps one copy of every group of rows equal in all columns, removes the
\* others and writes their number, raw rows less distinct raw rows; rows that
\* differ as raw values are both kept, also when they convert to equal rows.
C23_UmaCopiaPorGrupo ==
    [][ pc = "remover_duplicatas" =>
            /\ "converter_tipos" \notin SeqToSet(etapas)
            /\ SeqToSet(df') = SeqToSet(df)
            /\ \A r \in SeqToSet(df) : Copias(df', r) = 1
            /\ relatorio'["duplicatas_removidas"] = Len(df) - Cardinality(SeqToSet(df))
            /\ Len(df') = Len(df) - relatorio'["duplicatas_removidas"] ]_vars

\* A copy was removed, and two rows that differ only in the spelling of the
\* date were both kept.
C23_Witness ==
    /\ pc = "converter_tipos"
    /\ relatorio["duplicatas_removidas"] = 1
    /\ \E i \in 1..Len(df), j \in 1..Len(df) :
          /\ df[i] # df[j]
          /\ ConverterLinha(df[i]) = ConverterLinha(df[j])

\* C24: remover_outliers_extremos takes Q1, Q3 and IQR = Q3 - Q1 of valor over
\* the rows left by remover_registros_invalidos and keeps exactly the rows
\* with Q1 - 3 IQR <= valor <= Q3 + 3 IQR, in their order; a row on a bound is
\* kept, equal prices lose no row, and outliers_removidos_valor is the number
\* of rows dropped.  Quartiles are held times 4.
C24_LimitesInclusivos ==
    [][ pc = "remover_outliers_extremos" =>
            /\ etapas[Len(etapas)] = "remover_registros_invalidos"
            /\ relatorio'["outliers_removidos_valor"] = Len(df) - Len(df')
            /\ df # <<>> =>
                  LET xs == Valores(df)
                      Q1 == Quantil4(xs, 1)
                      Q3 == Quantil4(xs, 3)
                      Fica(r) == /\ Q1 - 3 * (Q3 - Q1) <= 4 * r.valor.v
                                 /\ 4 * r.valor.v <= Q3 + 3 * (Q3 - Q1)
                  IN  /\ df' = SelectSeq(df, Fica)
                      /\ \A k \in 1..Len(df) :
                            4 * df[k].valor.v \in {Q1 - 3 * (Q3 - Q1), Q3 + 3 * (Q3 - Q1)}
                                => df[k] \in SeqToSet(df')
                      /\ Cardinality({df[k].valor.v : k \in 1..Len(df)}) = 1 => df' = df
            /\ df = <<>> => df' = <<>> ]_vars

\* One price far above four equal ones was dropped; the four, which lie on
\* both bounds, were kept.
C24_Witness ==
    /\ pc = "criar_features_derivadas"
    /\ relatorio["outliers_removidos_valor"] = 1
    /\ Len(df) = 4
    /\ \A k \in 1..4 : df[k].valor.v = 1000

\* C25: ordenar_dados returns the rows it was given, none added, dropped or
\* altered, in non-decreasing data, with the index 0 .. n - 1; and that is
\* the frame limpar returns.
C25_OrdenadoPorData ==
    [][ /\ pc = "ordenar_dados" =>
              /\ \A k \in 2..Len(df') : df'[k - 1].data.v <= df'[k].data.v
              /\ Len(df') = Len(df)
              /\ \A r \in SeqToSet(df) \cup SeqToSet(df') : Copias(df', r) = Copias(df, r)
              /\ indice' = [k \in 1..Len(df') |-> k - 1]
        /\ pc = "fim" => (pc' = "done" => retorno'.df = df /\ UNCHANGED indice) ]_vars

\* A run returned rows whose order is not that of the raw frame, after rows
\* had been removed.
C25_Witness ==
    /\ pc = "done"
    /\ Len(retorno.df) = 3
    /\ Len(entrada) = 5
    /\ indice = <<0, 1, 2>>
    /\ entrada[1].data.v > entrada[2].data.v
    /\ retorno.df[1].data.v < retorno.df[3].data.v

\* C26: every row of the returned frame has the category and the margin of
\* an entry of the reference file for its product, or "Outros" and the
\* default margin when the file has none; lucro is round(receita x margem, 2)
\* with the row's margin; produtos_sem_categoria is the number of rows that
\* got the default.
C26_CategoriaMargemLucro ==
    pc = "done" =>
        LET f == retorno.df
            Tem(r) == \E i \in 1..Len(arquivo.linhas) : arquivo.linhas[i].produto = r.produto.v
        IN  /\ \A k \in 1..Len(f) :
                  /\ IF Tem(f[k])
                     THEN \E i \in 1..Len(arquivo.linhas) :
                              /\ arquivo.linhas[i].produto = f[k].produto.v
                              /\ f[k].categoria = arquivo.linhas[i].categoria_sugerida
                              /\ f[k].margem = arquivo.linhas[i].margem_sugerida
                     ELSE f[k].categoria = "Outros" /\ f[k].margem = MargemPadraoLimpeza
                  /\ f[k].lucro = Round(f[k].receita * f[k].margem, 100)
            /\ "produtos_sem_categoria" \in DOMAIN relatorio
            /\ relatorio["produtos_sem_categoria"] = Cardinality({k \in 1..Len(f) : ~Tem(f[k])})

\* C27: after a run that returns, registros_finais = registros_iniciais -
\* duplicatas_removidas - registros_invalidos - outliers_removidos_valor, so
\* that registros_finais <= registros_iniciais and the rate is at most 100 %,
\* also when the reference file lists a product more than once.
C27_ConservacaoDeLinhas ==
    pc = "done" =>
        /\ relatorio["registros_finais"] =
                relatorio["registros_iniciais"] - relatorio["duplicatas_removidas"]
                - relatorio["registros_invalidos"] - relatorio["outliers_removidos_valor"]
        /\ relatorio["registros_finais"] <= relatorio["registros_iniciais"]
        /\ relatorio["taxa_aproveitamento"] <= 10000

\* C28: in curva_abc the revenues do not increase along the ranking and the
\* classes do not go back (no A after a B or a C, no B after a C); the first
\* entry is an A unless its own share of the revenue is above 80 %, so the
\* only product of a frame is a C.
C28_ClassesMonotonas ==
    Mapeado =>
        LET vf == Validado
            curva == calc.mapa.curva_abc
            total == SomaSe(vf, LAMBDA r : TRUE)
            Ordem(c) == CASE c = "A" -> 1 [] c = "B" -> 2 [] c = "C" -> 3
        IN  /\ \A k \in 2..Len(curva) :
                  /\ curva[k - 1][2] >= curva[k][2]
                  /\ Ordem(curva[k - 1][3]) <= Ordem(curva[k][3])
            /\ \A k \in 1..Len(curva) : curva[k][3] \in {"A", "B", "C"}
            /\ (Len(curva) >= 1 /\ 100 * curva[1][2] <= 80 * total) => curva[1][3] = "A"
            /\ (Len(curva) >= 1 /\ 100 * curva[1][2] > 80 * total) => curva[1][3] # "A"
            /\ Cardinality({vf[k].produto.v : k \in 1..Len(vf)}) = 1 => curva[1][3] = "C"

\* C29: 1 <= dias_com_venda <= dias_periodo and 0 < densidade <= 100 %, also
\* when records of one calendar day carry different times of day.
C29_DensidadeAte100 ==
    Mapeado =>
        /\ 1 <= calc.mapa.dias_com_venda
        /\ calc.mapa.dias_com_venda <= calc.mapa.dias_periodo
        /\ 0 < calc.mapa.densidade_temporal_percent
        /\ calc.mapa.densidade_temporal_percent <= 10000

\* C30: every keyword of MARGENS_CATEGORIA is reachable: the product whose
\* name is the keyword gets the margin the table declares for that keyword.
C30_TodaPalavraAlcancavel ==
    \A n \in 1..Len(consultas) :
        (consultas[n].fn = "_margem_produto" /\ consultas[n].produto \in Palavras) =>
            \E k \in 1..Len(MARGENS_CATEGORIA) :
                /\ MARGENS_CATEGORIA[k].palavra = Letras[consultas[n].produto]
                /\ consultas[n].margem = MARGENS_CATEGORIA[k].margem

-----------------------------------------------------------------------------
(* Properties of the insight generator *)

GruposCrescimento == {"crescimento", "queda", "estabilidade"}
GruposQualidade ==
    {"qualidade_excelente", "qualidade_boa", "qualidade_media", "qualidade_baixa"}

\* C22: for every metrics map, gerar writes exactly one of the three growth
\* keys -- "crescimento" iff crescimento_percentual > 5, "queda" iff it is
\* < -5, "estabilidade" otherwise, exactly 5 and exactly -5 included -- and
\* exactly one of the four density keys, with strict boundaries at 95, 80
\* and 60; a growth of 30.0 gives "crescimento".
C22_UmInsightPorGrupo ==
    insights.feito =>
        LET e == insights.estatisticas
            d == DOMAIN insights.dict
            c == Get(e, "crescimento_percentual", 0)
            q == Get(e, "densidade_temporal_percent", 0)
        IN  /\ Cardinality(d \cap GruposCrescimento) = 1
            /\ "crescimento" \in d <=> c > 500
            /\ "queda" \in d <=> c < 0 - 500
            /\ "estabilidade" \in d <=> (0 - 500 <= c /\ c <= 500)
            /\ Cardinality(d \cap GruposQualidade) = 1
            /\ "qualidade_excelente" \in d <=> q > 9500
            /\ "qualidade_boa" \in d <=> (8000 < q /\ q <= 9500)
            /\ "qualidade_media" \in d <=> (6000 < q /\ q <= 8000)
            /\ "qualidade_baixa" \in d <=> q <= 6000
            /\ c = 3000 => "crescimento" \in d

C22_Witness ==
    /\ insights.feito
    /\ "crescimento_percentual" \in DOMAIN insights.estatisticas
    /\ insights.estatisticas["crescimento_percentual"] = 3000
    /\ "densidade_temporal_percent" \in DOMAIN insights.estatisticas
    /\ insights.estatisticas["densidade_temporal_percent"] = 9500
    /\ {"crescimento", "qualidade_boa"} \subseteq DOMAIN insights.dict

-----------------------------------------------------------------------------
(* Properties of the orchestrator *)

\* The keys of a complete metrics map.
ChavesDoMapa ==
    {"gmv", "lucro_estimado", "margem_media_percent", "total_transacoes",
     "total_unidades", "ticket_medio", "receita_media_diaria", "data_inicio",
     "data_fim", "dias_analisados", "top_produtos", "curva_abc",
     "receita_dia_semana", "melhor_dia_semana", "receita_mensal",
     "crescimento_percentual", "melhor_mes", "pior_mes", "top_dias",
     "dias_com_venda", "dias_periodo", "densidade_temporal_percent"}

\* How often executar has called the stage.
Chamadas(etapa) ==
    CASE etapa = "limpar" -> execucoes
      [] etapa = "calcular" -> calc.chamadas
      [] OTHER -> analise.chamadas[etapa]

\* The stage was called and raised.
Falhou(etapa) ==
    CASE etapa = "limpar" -> pc = "failed"
      [] etapa = "calcular" -> calc.feito /\ calc.tipo # "mapa"
      [] OTHER -> analise.chamadas[etapa] > 0 /\ analise.erro.etapa = etapa

\* The stage was called and returned.
Retornou(etapa) ==
    CASE etapa = "limpar" -> pc = "done"
      [] etapa = "calcular" -> calc.feito /\ calc.tipo = "mapa"
      [] OTHER -> analise.chamadas[etapa] > 0 /\ analise.erro.etapa # etapa

\* C21: executar runs load, clean, statistics, insights, charts and report
\* strictly in that order, each at most once; when a stage raises, no later
\* stage runs and no metrics map, partial or complete, is returned to the
\* caller; the report renderer is never called without a complete metrics
\* map.
C21_PipelineSequencial ==
    LET n == Len(ETAPAS_ANALISE)
    IN  /\ \A k \in 1..n : Chamadas(ETAPAS_ANALISE[k]) <= 1
        /\ \A k \in 2..n :
               Chamadas(ETAPAS_ANALISE[k]) > 0 => Retornou(ETAPAS_ANALISE[k - 1])
        /\ \A k \in 1..n :
               Falhou(ETAPAS_ANALISE[k]) =>
                   /\ \A j \in (k + 1)..n : Chamadas(ETAPAS_ANALISE[j]) = 0
                   /\ analise.retorno = SemRetornoAnalise
                   /\ analise.pc # "fim"
        /\ Chamadas("relatorio") > 0 =>
               /\ DOMAIN analise.relatorio_com = ChavesDoMapa
               /\ analise.relatorio_com = calc.mapa @@ analise.relatorio_com
        /\ analise.retorno.ok =>
               /\ \A k \in 1..n : Retornou(ETAPAS_ANALISE[k])
               /\ analise.retorno.estatisticas = analise.relatorio_com
               /\ analise.retorno.df = retorno.df

\* calcular raised on a file whose records were all removed by the cleaner.
C21_Witness ==
    /\ analise.pc = "abortado"
    /\ Falhou("calcular")
    /\ Retornou("carregar") /\ Retornou("limpar")
    /\ Len(analise.df) = 2
    /\ analise.df_limpo = <<>>

====
